---- MODULE Spec2Model ----
(***************************************************************************)
(* The price-gated lock vault (token/src/lib.rs, token/src/price_receiver.rs)*)
(* and the factory that deploys it (factory/src/lib.rs) as state machines: *)
(* one action per contract method or callback.  Every method is a function *)
(* from the contract state and the call's inputs to an outcome (it panics, *)
(* or it returns new field values), and an action that commits the         *)
(* outcome.  A call that panics commits nothing: the runtime reverts the   *)
(* receipt.  Spec runs the vault, FactorySpec the factory, PriceSpec the   *)
(* comparator of prices, NamingSpec the naming of a token and TwoStateSpec *)
(* the two-state vault (src/lib.rs), each with the others at rest.         *)
(***************************************************************************)
EXTENDS Integers, Sequences, FiniteSets, Bags, TLC

\* ------------------------------------------------------------------ bounds
\* last block timestamp the model reaches (in ticks, see UNLOCKING_DURATION)
MaxTime == 3
\* largest total amount ever deposited into the vault
MaxSupply == 1
\* largest number of withdrawal promises in flight at once
MaxPromises == 2
\* longest price list of one oracle call
MaxPrices == 2
\* largest number of deposits into the factory's storage budgets
MaxDeposits == 2
\* largest number of metadata reads of the factory in flight at once
MaxReads == 1
\* largest power of ten an operand of the comparator is scaled by
MaxScale == 39
\* largest raw target price a token is named for, besides the sampled ones
MaxRaw == 2000

\* ------------------------------------------------------- program constants
\* 24 * 60 * 60 * 10^9 ns, in ticks of twelve hours: every timestamp of the
\* model is a whole number of ticks, and the code only adds and compares.
UNLOCKING_DURATION == 2
MAX_U128_DECIMALS == 38
ONE_YOCTO == 1

OWNER_ID == "dreamproject.near"
\* env::current_account_id(): the vault itself, predecessor of its callbacks
CURRENT_ACCOUNT == "vault"
Holders == {"alice", "bob"}
Feeds == {"oracle", "oracle2"}
AccountIds == Holders \cup Feeds \cup {OWNER_ID, CURRENT_ACCOUNT, "backup", "wrap.near"}

\* Option<T>: None is the empty tuple, Some(x) the one-element tuple
None == << >>
Some(x) == << x >>

\* ------------------------------------------------------------------ Price
\* A u128 is kept as its decimal digits, most significant first, without
\* leading zeros (zero is <<0>>), so that 128-bit values stay exact.
U128_MAX ==
    << 3,4,0,2,8,2,3,6,6,9,2,0,9,3,8,4,6,3,4,6,3,3,7,4,6,0,7,4,3,1,7,6,8,2,1,1,4,5,5 >>

RECURSIVE LexCmp(_, _, _)
LexCmp(a, b, i) ==
    IF i > Len(a) THEN "Equal"
    ELSE IF a[i] < b[i] THEN "Less"
    ELSE IF a[i] > b[i] THEN "Greater"
    ELSE LexCmp(a, b, i + 1)

\* u128::cmp
U128Cmp(a, b) ==
    IF Len(a) < Len(b) THEN "Less"
    ELSE IF Len(a) > Len(b) THEN "Greater"
    ELSE LexCmp(a, b, 1)

\* u128::checked_mul(m, 10u128.pow(k)), for k <= 38 (10^38 < 2^128)
CheckedMulPow10(m, k) ==
    IF m = << 0 >> THEN Some(m)
    ELSE LET r == m \o [i \in 1..k |-> 0]
         IN IF U128Cmp(r, U128_MAX) = "Greater" THEN None ELSE Some(r)

Reverse(o) ==
    IF o = "Less" THEN "Greater" ELSE IF o = "Greater" THEN "Less" ELSE "Equal"

\* CmpAligned that takes an overflowing scale-up of other for a smaller value
CmpAligned_overflow_greater(self, other) ==
    LET decimals_diff == self.decimals - other.decimals
    IN IF decimals_diff > MAX_U128_DECIMALS THEN "Less"
       ELSE LET om == CheckedMulPow10(other.multiplier, decimals_diff)
            IN IF om # None THEN U128Cmp(self.multiplier, om[1]) ELSE "Greater"

\* CmpAligned that takes the operand with far more decimals for the larger
CmpAligned_clamp_greater(self, other) ==
    LET decimals_diff == self.decimals - other.decimals
    IN IF decimals_diff > MAX_U128_DECIMALS THEN "Greater"
       ELSE LET om == CheckedMulPow10(other.multiplier, decimals_diff)
            IN IF om # None THEN U128Cmp(self.multiplier, om[1]) ELSE "Less"

\* partial_cmp when self.decimals >= other.decimals
CmpAligned(self, other) ==
    LET decimals_diff == self.decimals - other.decimals
    IN IF decimals_diff > MAX_U128_DECIMALS THEN "Less"
       ELSE LET om == CheckedMulPow10(other.multiplier, decimals_diff)
            IN IF om # None THEN U128Cmp(self.multiplier, om[1]) ELSE "Less"

\* partial_cmp that forgets to reverse the result of the swapped comparison
partial_cmp_unreversed(self, other) ==
    IF self.decimals < other.decimals
    THEN CmpAligned(other, self)
    ELSE CmpAligned(self, other)

\* impl PartialOrd for Price
partial_cmp(self, other) ==
    IF self.decimals < other.decimals
    THEN Reverse(CmpAligned(other, self))
    ELSE CmpAligned(self, other)

\* price >= self.minimum_unlock_price
PriceGe(a, b) == partial_cmp(a, b) \in {"Greater", "Equal"}

p(multiplier, decimals) == [multiplier |-> multiplier, decimals |-> decimals]

\* ------------------------------------------------------------ configuration
\* the arguments of Contract::new
InitConfig ==
    [ token_id |-> "wnear-at-10-0",
      asset_id |-> "wrap.near",
      minimum_unlock_price |-> p(<< 1, 0 >>, 9),
      locked_token_account_id |-> "wrap.near",
      factory_account_id |-> "factory" ]

\* prices an oracle call may carry.  The trigger price is 10 / 10^9:
\* 99 / 10^10 is below it and 100 / 10^10 equals it.
BelowPrices == { p(<< 9, 9 >>, 10) }
QualifyingPrices == { p(<< 1, 0, 0 >>, 10) }
OfferedPrices == BelowPrices \cup QualifyingPrices

\* AssetOptionalPrice: the vault's asset with any offered price or none, and
\* another asset with a price above the trigger
AssetOptionalPrices ==
    [ asset_id : {"wrap.near"}, price : {None} \cup { Some(x) : x \in OfferedPrices } ]
    \cup { [asset_id |-> "other", price |-> Some(p(<< 1, 1 >>, 9))] }

\* PriceData.prices
PriceLists ==
    UNION { [1..n -> AssetOptionalPrices] : n \in 0..MaxPrices }

Metas == {"meta0", "meta1"}

VARIABLES
    status,                     \* Contract.status
    accounts,                   \* Contract.ft.accounts: registered holder -> balance
    total_supply,               \* Contract.ft.total_supply
    meta,                       \* Contract.meta
    backup_trigger_account_id,  \* Contract.backup_trigger_account_id
    price_oracle_account_id,    \* Contract.price_oracle_account_id
    config,                     \* the other fields set by Contract::new
    block_timestamp,            \* env::block_timestamp()
    promises,                   \* bag of ft_transfer(..).then(after_ft_transfer(..)) in flight
    meta_promises,              \* some ft_metadata(..).then(on_ft_metadata()) is in flight
    ft_sent,                    \* backing tokens the locked-token ledger has paid out
    deposited,                  \* backing tokens ever accepted by ft_on_transfer
    burned,                     \* balances closed by storage_unregister(force)
    was_unlocked,               \* the status has been Unlocked at some time
    storage_held                \* per account: registrations minus storage deposits released

ledger == << accounts, total_supply >>
settings == << meta, backup_trigger_account_id, price_oracle_account_id, config >>
history == << ft_sent, deposited, burned, was_unlocked, storage_held >>
contract == << status, ledger, settings >>
vars == << status, accounts, total_supply, meta, backup_trigger_account_id,
           price_oracle_account_id, config, block_timestamp, promises,
           meta_promises, ft_sent, deposited, burned, was_unlocked,
           storage_held >>

Locked == [tag |-> "Locked", initiated_timestamp |-> 0]
Unlocking(t) == [tag |-> "Unlocking", initiated_timestamp |-> t]
Unlocked == [tag |-> "Unlocked", initiated_timestamp |-> 0]

\* Contract::new
Init ==
    /\ status = Locked
    /\ accounts = [x \in {} |-> 0]
    /\ total_supply = 0
    /\ meta = "meta0"
    /\ backup_trigger_account_id \in {None, Some("backup")}
    /\ price_oracle_account_id = "oracle"
    /\ config = InitConfig
    /\ block_timestamp = 0
    /\ promises = EmptyBag
    /\ meta_promises = FALSE
    /\ ft_sent = 0
    /\ deposited = 0
    /\ burned = 0
    /\ was_unlocked = FALSE
    /\ storage_held = [a \in Holders |-> 0]

\* -------------------------------------------------------------- FungibleToken
\* near_contract_standards::fungible_token::FungibleToken, as the vault uses it

Remove(accs, a) == [x \in DOMAIN accs \ {a} |-> accs[x]]

\* internal_register_account
Register(accs, a) == [x \in DOMAIN accs \cup {a} |-> IF x = a THEN 0 ELSE accs[x]]

\* internal_deposit: None when it panics (the account is not registered)
internal_deposit(accs, a, amount) ==
    IF a \notin DOMAIN accs THEN None
    ELSE Some([accs EXCEPT ![a] = @ + amount])

\* internal_withdraw: None when it panics (not registered, or balance too low)
internal_withdraw(accs, a, amount) ==
    IF a \notin DOMAIN accs THEN None
    ELSE IF accs[a] < amount THEN None
    ELSE Some([accs EXCEPT ![a] = @ - amount])

\* self.ft.accounts.get(&account_id).unwrap_or(0)
BalanceOrZero(accs, a) == IF a \in DOMAIN accs THEN accs[a] ELSE 0

\* the outcome of a call on the ledger: it panics, or it leaves these accounts
\* after moving `amount`
LedgerPanic == [panic |-> TRUE, accounts |-> [x \in {} |-> 0], amount |-> 0]
LedgerOk(accs, amount) == [panic |-> FALSE, accounts |-> accs, amount |-> amount]

\* storage_deposit(account_id, registration_only); `enough`: the attached
\* deposit is at least storage_balance_bounds().min
storage_deposit_result(accs, account_id, enough) ==
    IF account_id \in DOMAIN accs THEN LedgerOk(accs, 0)
    ELSE IF ~enough THEN LedgerPanic
    ELSE LedgerOk(Register(accs, account_id), 0)

storage_deposit(account_id, enough) ==
    LET r == storage_deposit_result(accounts, account_id, enough)
    IN IF r.panic THEN UNCHANGED vars
       ELSE /\ accounts' = r.accounts
            /\ storage_held' = IF account_id \in DOMAIN accounts THEN storage_held
                               ELSE [storage_held EXCEPT ![account_id] = @ + 1]
            /\ UNCHANGED << status, total_supply, settings, block_timestamp,
                            promises, meta_promises, ft_sent, deposited, burned,
                            was_unlocked >>

\* storage_unregister(force); amount: the balance that is burned
storage_unregister_result(accs, predecessor, force, attached) ==
    IF attached # ONE_YOCTO THEN LedgerPanic
    ELSE IF predecessor \notin DOMAIN accs THEN LedgerOk(accs, 0)
    ELSE IF accs[predecessor] = 0 \/ force
    THEN LedgerOk(Remove(accs, predecessor), accs[predecessor])
    ELSE LedgerPanic

storage_unregister(predecessor, force, attached) ==
    LET r == storage_unregister_result(accounts, predecessor, force, attached)
    IN IF r.panic THEN UNCHANGED vars
       ELSE /\ accounts' = r.accounts
            /\ total_supply' = total_supply - r.amount
            /\ burned' = burned + r.amount
            /\ storage_held' = IF predecessor \in DOMAIN accounts
                               THEN [storage_held EXCEPT ![predecessor] = @ - 1]
                               ELSE storage_held
            /\ UNCHANGED << status, settings, block_timestamp, promises,
                            meta_promises, ft_sent, deposited, was_unlocked >>

\* ft_transfer(receiver_id, amount, memo)
ft_transfer_result(accs, predecessor, receiver_id, amount, attached) ==
    LET debited == internal_withdraw(accs, predecessor, amount)
        credited == IF debited = None THEN None
                    ELSE internal_deposit(debited[1], receiver_id, amount)
    IN IF \/ attached # ONE_YOCTO
          \/ predecessor = receiver_id
          \/ amount = 0
          \/ credited = None
       THEN LedgerPanic
       ELSE LedgerOk(credited[1], amount)

ft_transfer(predecessor, receiver_id, amount, attached) ==
    LET r == ft_transfer_result(accounts, predecessor, receiver_id, amount, attached)
    IN IF r.panic THEN UNCHANGED vars
       ELSE /\ accounts' = r.accounts
            /\ UNCHANGED << status, total_supply, settings, block_timestamp,
                            promises, meta_promises, history >>

\* ---------------------------------------------------------------- the vault
\* ft_on_transfer without the assertion on the status
ft_on_transfer_result_any_status(st, accs, cfg, predecessor, sender_id, amount) ==
    LET credited == internal_deposit(accs, sender_id, amount)
    IN IF \/ predecessor # cfg.locked_token_account_id
          \/ credited = None
       THEN LedgerPanic
       ELSE LedgerOk(credited[1], amount)

\* FungibleTokenReceiver::ft_on_transfer; amount: what is credited
ft_on_transfer_result(st, accs, cfg, predecessor, sender_id, amount) ==
    LET credited == internal_deposit(accs, sender_id, amount)
    IN IF \/ predecessor # cfg.locked_token_account_id
          \/ st.tag # "Locked"
          \/ credited = None
       THEN LedgerPanic
       ELSE LedgerOk(credited[1], amount)

ft_on_transfer(predecessor, sender_id, amount) ==
    LET r == ft_on_transfer_result(status, accounts, config, predecessor, sender_id, amount)
    IN /\ deposited + amount <= MaxSupply
       /\ IF r.panic THEN UNCHANGED vars
          ELSE /\ accounts' = r.accounts
               /\ total_supply' = total_supply + r.amount
               /\ deposited' = deposited + r.amount
               /\ UNCHANGED << status, settings, block_timestamp, promises,
                               meta_promises, ft_sent, burned, was_unlocked,
                               storage_held >>

\* unwrap without the assertion on the status
unwrap_result_any_status(st, accs, predecessor, attached) ==
    LET balance == BalanceOrZero(accs, predecessor)
        debited == internal_withdraw(accs, predecessor, balance)
    IN IF attached # ONE_YOCTO \/ debited = None
       THEN LedgerPanic
       ELSE LedgerOk(debited[1], balance)

\* unwrap that sends the balance without debiting it
unwrap_result_keeps_balance(st, accs, predecessor, attached) ==
    LET balance == BalanceOrZero(accs, predecessor)
        debited == internal_withdraw(accs, predecessor, balance)
    IN IF \/ attached # ONE_YOCTO
          \/ st.tag # "Unlocked"
          \/ debited = None
       THEN LedgerPanic
       ELSE LedgerOk(accs, balance)

\* Contract::unwrap; amount: the balance debited, which is the amount of the
\* ft_transfer issued and the balance passed to after_ft_transfer
unwrap_result(st, accs, predecessor, attached) ==
    LET balance == BalanceOrZero(accs, predecessor)
        debited == internal_withdraw(accs, predecessor, balance)
    IN IF \/ attached # ONE_YOCTO
          \/ st.tag # "Unlocked"
          \/ debited = None
       THEN LedgerPanic
       ELSE LedgerOk(debited[1], balance)

\* ft_transfer(account_id, balance, ..).then(after_ft_transfer(account_id, balance))
Promise(account_id, balance) == [account_id |-> account_id, balance |-> balance]

unwrap(predecessor, attached) ==
    LET r == unwrap_result(status, accounts, predecessor, attached)
    IN /\ BagCardinality(promises) < MaxPromises
       /\ IF r.panic THEN UNCHANGED vars
          ELSE /\ accounts' = r.accounts
               /\ total_supply' = total_supply - r.amount
               /\ promises' = promises (+) SetToBag({Promise(predecessor, r.amount)})
               /\ UNCHANGED << status, settings, block_timestamp, meta_promises,
                               history >>

\* the outcome of after_ft_transfer: the outcome on the ledger, and whether
\* storage_balance_bounds().min is transferred to the account
Callback(result, released) ==
    [panic |-> result.panic, accounts |-> result.accounts, amount |-> result.amount,
     released |-> released]

\* after_ft_transfer that pays the storage deposit out on every success
after_ft_transfer_result_always_releases(accs, account_id, balance, promise_success) ==
    IF promise_success
    THEN IF account_id \in DOMAIN accs /\ accs[account_id] = 0
         THEN Callback(LedgerOk(Remove(accs, account_id), 0), TRUE)
         ELSE Callback(LedgerOk(accs, 0), TRUE)
    ELSE LET credited == internal_deposit(accs, account_id, balance)
         IN IF credited = None THEN Callback(LedgerPanic, FALSE)
            ELSE Callback(LedgerOk(credited[1], balance), FALSE)

\* ExtSelf::after_ft_transfer; amount: what is credited back
after_ft_transfer_result(accs, account_id, balance, promise_success) ==
    IF promise_success
    THEN IF account_id \in DOMAIN accs /\ accs[account_id] = 0
         THEN Callback(LedgerOk(Remove(accs, account_id), 0), TRUE)
         ELSE Callback(LedgerOk(accs, 0), FALSE)
    ELSE LET credited == internal_deposit(accs, account_id, balance)
         IN IF credited = None THEN Callback(LedgerPanic, FALSE)
            ELSE Callback(LedgerOk(credited[1], balance), FALSE)

\* after_ft_transfer run as the callback of the promise pr in flight; the
\* ft_transfer it follows has paid out pr.balance iff promise_success
after_ft_transfer(pr, promise_success) ==
    LET r == after_ft_transfer_result(accounts, pr.account_id, pr.balance,
                                      promise_success)
    IN /\ BagIn(pr, promises)
       /\ promises' = promises (-) SetToBag({pr})
       /\ ft_sent' = ft_sent + (IF promise_success THEN pr.balance ELSE 0)
       /\ IF r.panic THEN UNCHANGED << ledger, storage_held >>
          ELSE /\ accounts' = r.accounts
               /\ total_supply' = total_supply + r.amount
               /\ storage_held' = IF r.released
                                  THEN [storage_held EXCEPT ![pr.account_id] = @ - 1]
                                  ELSE storage_held
       /\ UNCHANGED << status, settings, block_timestamp, meta_promises,
                       deposited, burned, was_unlocked >>

\* after_ft_transfer and on_ft_metadata are #[private]: a call that does not
\* come from the vault itself panics
call_private(predecessor) ==
    /\ predecessor # CURRENT_ACCOUNT
    /\ UNCHANGED vars

\* ------------------------------------------------------- the status machine
\* the outcome of a call on the status: it panics, or it leaves this status
Panicked == [panic |-> TRUE, status |-> Locked]
Returned(st) == [panic |-> FALSE, status |-> st]

\* maybe_unlock that still waits when the cooldown has just elapsed
maybe_unlock_late(st, timestamp) ==
    IF st.tag = "Locked" THEN Returned(Unlocking(timestamp))
    ELSE IF st.tag = "Unlocking"
    THEN IF st.initiated_timestamp + UNLOCKING_DURATION >= timestamp
         THEN Returned(st)
         ELSE Returned(Unlocked)
    ELSE Panicked

\* maybe_unlock that stamps the time again on every call during the cooldown
maybe_unlock_restamp(st, timestamp) ==
    IF st.tag = "Locked" THEN Returned(Unlocking(timestamp))
    ELSE IF st.tag = "Unlocking"
    THEN IF st.initiated_timestamp + UNLOCKING_DURATION > timestamp
         THEN Returned(Unlocking(timestamp))
         ELSE Returned(Unlocked)
    ELSE Panicked

\* maybe_unlock that returns quietly when the vault is already Unlocked
maybe_unlock_quiet(st, timestamp) ==
    IF st.tag = "Locked" THEN Returned(Unlocking(timestamp))
    ELSE IF st.tag = "Unlocking"
    THEN IF st.initiated_timestamp + UNLOCKING_DURATION > timestamp
         THEN Returned(st)
         ELSE Returned(Unlocked)
    ELSE Returned(st)

\* Contract::maybe_unlock
maybe_unlock(st, timestamp) ==
    IF st.tag = "Locked" THEN Returned(Unlocking(timestamp))
    ELSE IF st.tag = "Unlocking"
    THEN IF st.initiated_timestamp + UNLOCKING_DURATION > timestamp
         THEN Returned(st)
         ELSE Returned(Unlocked)
    ELSE Panicked

\* maybe_lock that locks an Unlocked vault again
maybe_lock_relock(st) ==
    IF st.tag = "Locked" THEN Panicked
    ELSE Returned(Locked)

\* Contract::maybe_lock
maybe_lock(st) ==
    IF st.tag = "Locked" THEN Panicked
    ELSE IF st.tag = "Unlocking" THEN Returned(Locked)
    ELSE Panicked

\* the first entry of data.prices for the vault's asset, if any: the entry
\* at which the loop of oracle_on_call returns
FirstEntry(prices, asset_id) ==
    LET hits == { i \in 1..Len(prices) : prices[i].asset_id = asset_id }
    IN IF hits = {} THEN None
       ELSE Some(prices[CHOOSE i \in hits : \A j \in hits : i <= j])

\* oracle_on_call without the assertion on the predecessor
oracle_on_call_result_open(st, feed, cfg, timestamp, predecessor, prices) ==
    LET entry == FirstEntry(prices, cfg.asset_id)
    IN IF entry = None THEN Returned(st)
       ELSE IF /\ entry[1].price # None
               /\ PriceGe(entry[1].price[1], cfg.minimum_unlock_price)
       THEN maybe_unlock(st, timestamp)
       ELSE maybe_lock(st)

\* OraclePriceReceiver::oracle_on_call
oracle_on_call_result(st, feed, cfg, timestamp, predecessor, prices) ==
    LET entry == FirstEntry(prices, cfg.asset_id)
    IN IF predecessor # feed THEN Panicked
       ELSE IF entry = None THEN Returned(st)
       ELSE IF /\ entry[1].price # None
               /\ PriceGe(entry[1].price[1], cfg.minimum_unlock_price)
       THEN maybe_unlock(st, timestamp)
       ELSE maybe_lock(st)

oracle_on_call(predecessor, prices) ==
    LET r == oracle_on_call_result(status, price_oracle_account_id, config,
                                   block_timestamp, predecessor, prices)
    IN IF r.panic THEN UNCHANGED vars
       ELSE /\ status' = r.status
            /\ was_unlocked' = (was_unlocked \/ r.status.tag = "Unlocked")
            /\ UNCHANGED << ledger, settings, block_timestamp, promises,
                            meta_promises, ft_sent, deposited, burned,
                            storage_held >>

\* unlock without the assertion on the predecessor
unlock_result_open(st, backup, predecessor, attached) ==
    IF attached # ONE_YOCTO \/ st.tag = "Unlocked"
    THEN Panicked
    ELSE Returned(Unlocked)

\* Contract::unlock
unlock_result(st, backup, predecessor, attached) ==
    IF \/ attached # ONE_YOCTO
       \/ Some(predecessor) # backup
       \/ st.tag = "Unlocked"
    THEN Panicked
    ELSE Returned(Unlocked)

unlock(predecessor, attached) ==
    LET r == unlock_result(status, backup_trigger_account_id, predecessor, attached)
    IN IF r.panic THEN UNCHANGED vars
       ELSE /\ status' = r.status
            /\ was_unlocked' = TRUE
            /\ UNCHANGED << ledger, settings, block_timestamp, promises,
                            meta_promises, ft_sent, deposited, burned,
                            storage_held >>

\* assert_owner
assert_owner(predecessor) == predecessor = OWNER_ID

\* Contract::update_price_oracle_account_id
update_price_oracle_account_id(predecessor, new_id) ==
    IF ~assert_owner(predecessor) THEN UNCHANGED vars
    ELSE /\ price_oracle_account_id' = new_id
         /\ UNCHANGED << status, ledger, meta, backup_trigger_account_id, config,
                         block_timestamp, promises, meta_promises, history >>

\* Contract::update_meta
update_meta ==
    /\ meta_promises' = TRUE
    /\ UNCHANGED << contract, block_timestamp, promises, history >>

\* Contract::on_ft_metadata, run as the callback of a metadata read; other
\* reads may still be in flight
on_ft_metadata(ft_metadata) ==
    /\ meta_promises
    /\ meta_promises' \in BOOLEAN
    /\ meta' = IF ft_metadata # None THEN ft_metadata[1] ELSE meta
    /\ UNCHANGED << status, ledger, backup_trigger_account_id,
                    price_oracle_account_id, config, block_timestamp, promises,
                    history >>

\* a later block: env::block_timestamp() never decreases.  Only maybe_unlock
\* reads the clock, and not once the status is Unlocked: later blocks are
\* not told apart from then on.
Tick ==
    /\ block_timestamp < MaxTime
    /\ status.tag # "Unlocked"
    /\ block_timestamp' = block_timestamp + 1
    /\ UNCHANGED << contract, promises, meta_promises, history >>

\* ================================================================ comparator
\* The comparator of Price on its own: two operands, the Ordering the last
\* comparison returned, and the power of ten the left operand was scaled by.
VARIABLES
    lhs,        \* self
    rhs,        \* other
    ordering,   \* the result of the last partial_cmp(lhs, rhs), None before it
    scaled_by   \* lhs is an operand of ComparedPrices scaled by 10^scaled_by

comparison == << lhs, rhs, ordering, scaled_by >>

\* u8::MAX, the largest decimals a Price can hold
U8_MAX == 255

\* 10^38, the largest power of ten below 2^128
Pow10_38 == << 1 >> \o [i \in 1..38 |-> 0]

\* the operands: zero at several scales, the prices of test_price_cmp, and
\* multipliers at the edge of 128 bits
ComparedPrices ==
    { p(<< 0 >>, 0), p(<< 0 >>, 20), p(<< 0 >>, 39),
      p(<< 1 >>, 0), p(<< 1 >>, 1), p(<< 1 >>, 39), p(<< 1, 0 >>, 0),
      p(<< 1, 0 >>, 9), p(<< 9, 9 >>, 10), p(<< 1, 0, 0 >>, 10), p(<< 1, 0, 1 >>, 40),
      p(Pow10_38, 38), p(U128_MAX, 0), p(U128_MAX, 38) }

\* the comparator is idle while the vault or the factory runs
ComparisonIdle ==
    /\ lhs = p(<< 0 >>, 0)
    /\ rhs = p(<< 0 >>, 0)
    /\ ordering = None
    /\ scaled_by = 0

ComparisonInit ==
    /\ lhs \in ComparedPrices
    /\ rhs \in ComparedPrices
    /\ ordering = None
    /\ scaled_by = 0

\* Price { multiplier * 10^k, decimals + k }, None when either overflows
Scaled(price, k) ==
    LET m == CheckedMulPow10(price.multiplier, k)
    IN IF m = None \/ price.decimals + k > U8_MAX THEN None
       ELSE Some(p(m[1], price.decimals + k))

\* lhs.partial_cmp(&rhs)
compare ==
    /\ ordering' = Some(partial_cmp(lhs, rhs))
    /\ UNCHANGED << lhs, rhs, scaled_by >>

\* the same price written with k more decimals
rescale(k) ==
    /\ scaled_by = 0
    /\ Scaled(lhs, k) # None
    /\ lhs' = Scaled(lhs, k)[1]
    /\ scaled_by' = k
    /\ ordering' = None
    /\ UNCHANGED rhs

\* the operands the other way round
swap ==
    /\ scaled_by = 0
    /\ lhs' = rhs
    /\ rhs' = lhs
    /\ ordering' = None
    /\ UNCHANGED scaled_by

\* =================================================================== factory
\* TokenFactory (factory/src/lib.rs).  Balances are counted in units of
\* STORAGE_PRICE_PER_BYTE, so the price of a byte is 1.  A String is the
\* sequence of its characters.

\* env::current_account_id() of the factory
FACTORY_ACCOUNT == << "f", "t" >>
BACKUP_TRIGGER_ACCOUNT_ID == "dreamproject.near"
Callers == {"alice", "bob"}
\* the accounts an administrator may whitelist as backing tokens
TokenAccounts == {"wrap.near", "usdt.near"}

\* bytes of the compiled vault (include_bytes!), of the safety margin, and of
\* the fixed-size part of a serialized TokenArgs
FT_WASM_CODE_LEN == 200000
EXTRA_BYTES == 10000
ARGS_FIXED_LEN == 200
\* TokenFactory.storage_balance_cost: the bytes of one storage_deposits entry
storage_balance_cost == 100

Digit == << "0", "1", "2", "3", "4", "5", "6", "7", "8", "9" >>
Separators == {"-", "_", "."}
LowerCase == {"a", "e", "f", "n", "r", "t", "w"}

\* u128::to_string: format!("{}", n)
RECURSIVE to_string(_)
to_string(n) ==
    IF n < 10 THEN << Digit[n + 1] >>
    ELSE to_string(n \div 10) \o << Digit[(n % 10) + 1] >>

\* format!("{:04}", n)
format_04(n) ==
    LET s == to_string(n)
    IN [i \in 1..(4 - Len(s)) |-> "0"] \o s

\* the loop of remove_trailing_zeros, with k rounds left
RECURSIVE pop_zeros(_, _)
pop_zeros(string, k) ==
    IF k = 0 THEN string
    ELSE IF string[Len(string)] = "0" /\ Len(string) # 1
    THEN pop_zeros(SubSeq(string, 1, Len(string) - 1), k - 1)
    ELSE pop_zeros(string, k - 1)

\* remove_trailing_zeros whose loop runs twice only
remove_trailing_zeros_twice(amount) == pop_zeros(format_04(amount), 2)

\* remove_trailing_zeros
remove_trailing_zeros(amount) == pop_zeros(format_04(amount), 4)

\* char::to_ascii_lowercase, on the letters of the model
to_ascii_lowercase_char(c) ==
    CASE c = "A" -> "a" [] c = "E" -> "e" [] c = "N" -> "n" [] c = "R" -> "r"
      [] c = "W" -> "w" [] OTHER -> c

to_ascii_lowercase(s) == [i \in 1..Len(s) |-> to_ascii_lowercase_char(s[i])]

\* TokenFactory::format_title
format_title(s) == SelectSeq(s, LAMBDA c : c # " ")

\* is_valid_symbol
is_valid_symbol(s) ==
    \A i \in 1..Len(s) :
        \/ s[i] \in LowerCase
        \/ \E d \in 1..10 : s[i] = Digit[d]
        \/ s[i] \in {"_", "-"}

\* env::is_valid_account_id: 2 to 64 characters, lower-case letters and
\* digits, with single separators between them
is_valid_account_id(s) ==
    /\ Len(s) >= 2
    /\ Len(s) <= 64
    /\ \A i \in 1..Len(s) :
           \/ s[i] \in LowerCase
           \/ \E d \in 1..10 : s[i] = Digit[d]
           \/ /\ s[i] \in Separators
              /\ i > 1
              /\ i < Len(s)
              /\ s[i - 1] \notin Separators

\* FungibleTokenMetadata; spec_ok: assert_valid() passes
Metadata(name, symbol, decimals, spec_ok) ==
    [name |-> name, symbol |-> symbol, decimals |-> decimals, spec_ok |-> spec_ok]

GoodMetadata == Metadata(<< "N" >>, << "w", "N" >>, 24, TRUE)
SpacedMetadata == Metadata(<< "N" >>, << "w", " ", "N" >>, 24, TRUE)
\* the metadata an administrator or a token's ft_metadata may supply
Metadatas ==
    { GoodMetadata,
      SpacedMetadata,
      Metadata(<< "N" >>, << "w", "N" >>, 0, TRUE),
      Metadata(<< "N" >>, << >>, 24, TRUE),
      Metadata(<< "N" >>, << "w", "_" >>, 24, TRUE),
      Metadata(<< "N" >>, << "w", "N" >>, 24, FALSE) }

\* Option<String> ticker of a whitelisted token
Tickers == { None, Some(<< "N", "E", "A", "R" >>) }

\* the asset whose price a backing token tracks
AssetOf(token_id) == IF token_id = "wrap.near" THEN "wrap.near" ELSE "usdt"

WhitelistedToken(asset_id, ticker, metadata) ==
    [asset_id |-> asset_id, ticker |-> ticker, metadata |-> metadata]

\* raw target prices: 0, 1.0000, 1.5000
TargetPrices == {0, 10000, 15000}

\* TokenArgsInput
TokenArgsInputs ==
    [ token_id : TokenAccounts,
      target_price : TargetPrices,
      price_oracle_account_id : {None} \cup { Some(f) : f \in Feeds } ]

VARIABLES
    tokens,                     \* TokenFactory.tokens: token id -> TokenArgs
    storage_deposits,           \* TokenFactory.storage_deposits: account -> balance
    whitelisted_tokens,         \* TokenFactory.whitelisted_tokens
    whitelisted_price_oracles,  \* TokenFactory.whitelisted_price_oracles
    metadata_reads,             \* ft_metadata().then(on_ft_metadata(..)) in flight
    deployments,                \* token id -> the deployment sequences issued for it
    deposits_made               \* number of calls that have put a deposit into a budget

whitelists == << whitelisted_tokens, whitelisted_price_oracles >>
factory == << tokens, storage_deposits, whitelisted_tokens,
              whitelisted_price_oracles, metadata_reads, deployments,
              deposits_made >>

\* TokenFactory::new
FactoryInit ==
    /\ tokens = [x \in {} |-> 0]
    /\ storage_deposits = [x \in {} |-> 0]
    /\ whitelisted_tokens = [x \in {} |-> 0]
    /\ whitelisted_price_oracles = {}
    /\ metadata_reads = {}
    /\ deployments = [x \in {} |-> 0]
    /\ deposits_made = 0

\* LookupMap / UnorderedMap::insert
Insert(map, key, value) ==
    [x \in DOMAIN map \cup {key} |-> IF x = key THEN value ELSE map[x]]

\* self.storage_deposits.get(&account_id).unwrap_or(0)
BudgetOrZero(deps, a) == IF a \in DOMAIN deps THEN deps[a] ELSE 0

\* the outcome of a call on the budgets: the error it panics with ("" when it
\* returns) and the budgets it leaves
BudgetResult(error, deps) == [error |-> error, storage_deposits |-> deps]

\* TokenFactory::storage_deposit
factory_storage_deposit_result(deps, account_id, deposit) ==
    IF account_id \in DOMAIN deps
    THEN BudgetResult("", Insert(deps, account_id, deps[account_id] + deposit))
    ELSE IF deposit < storage_balance_cost
    THEN BudgetResult("Deposit is too low", deps)
    ELSE BudgetResult("", Insert(deps, account_id, deposit - storage_balance_cost))

factory_storage_deposit(account_id, deposit) ==
    LET r == factory_storage_deposit_result(storage_deposits, account_id, deposit)
    IN /\ deposits_made < MaxDeposits
       /\ IF r.error # "" THEN UNCHANGED factory
          ELSE /\ storage_deposits' = r.storage_deposits
               /\ deposits_made' = deposits_made + 1
               /\ UNCHANGED << tokens, whitelists, metadata_reads, deployments >>

\* Price of the factory (factory/src/lib.rs)
FactoryPrice(multiplier, decimals) == [multiplier |-> multiplier, decimals |-> decimals]

TokenArgs(locked_token, token_id, metadata, price_oracle, asset_id, price) ==
    [ locked_token_account_id |-> locked_token,
      token_id |-> token_id,
      meta |-> metadata,
      backup_trigger_account_id |-> Some(BACKUP_TRIGGER_ACCOUNT_ID),
      price_oracle_account_id |-> price_oracle,
      asset_id |-> asset_id,
      minimum_unlock_price |-> price ]

\* args.try_to_vec().unwrap().len(): the strings of the record that vary in
\* length, and the rest
serialized_len(args) ==
    ARGS_FIXED_LEN + Len(args.token_id) + Len(args.meta.name) + Len(args.meta.symbol)

\* TokenFactory::get_min_attached_balance
get_min_attached_balance(args) ==
    FT_WASM_CODE_LEN + EXTRA_BYTES + serialized_len(args) * 2

\* the name of the token create_token wants to create
token_name_of(whitelisted_token) == format_title(whitelisted_token.metadata.symbol)

ticker_of(whitelisted_token) ==
    IF whitelisted_token.ticker = None THEN token_name_of(whitelisted_token)
    ELSE whitelisted_token.ticker[1]

\* the price as create_token prints it
price_string(target_price) ==
    IF target_price % 10000 > 0
    THEN to_string(target_price \div 10000) \o << "." >>
             \o remove_trailing_zeros(target_price % 10000)
    ELSE to_string(target_price \div 10000)

\* a token id without the separator between the two parts of the price
derive_token_id_unseparated(token_name, target_price) ==
    to_ascii_lowercase(token_name \o << "-", "a", "t", "-" >>
                       \o to_string(target_price \div 10000)
                       \o remove_trailing_zeros(target_price % 10000))

\* the token id create_token derives: "<name>-at-<int>-<frac>", lower-cased
derive_token_id(token_name, target_price) ==
    to_ascii_lowercase(token_name \o << "-", "a", "t", "-" >>
                       \o to_string(target_price \div 10000) \o << "-" >>
                       \o remove_trailing_zeros(target_price % 10000))

\* format!("{}.{}", token_id, env::current_account_id())
token_account_id_of(token_id) == token_id \o << "." >> \o FACTORY_ACCOUNT

\* the TokenArgs create_token builds for a whitelisted token
build_args(whitelisted_token, token_args) ==
    LET ticker == ticker_of(whitelisted_token)
        price == price_string(token_args.target_price)
        metadata == [whitelisted_token.metadata EXCEPT
                        !.name = ticker \o << " ", "a", "t", " ", "$" >> \o price,
                        !.symbol = ticker \o << "@" >> \o price]
    IN TokenArgs(token_args.token_id,
                 derive_token_id(token_name_of(whitelisted_token), token_args.target_price),
                 metadata,
                 token_args.price_oracle_account_id[1],
                 whitelisted_token.asset_id,
                 FactoryPrice(token_args.target_price,
                              whitelisted_token.metadata.decimals + 4))

\* the create_account / transfer / deploy_contract / function_call("new")
\* batch create_token returns
Deployment(token_account_id, args) == [token_account_id |-> token_account_id, args |-> args]

\* the outcome of create_token: the error it panics with ("" when it
\* returns), the registry and the budgets it leaves, and the deployment
\* sequence it issues
CreateFailed(error, toks, deps) ==
    [error |-> error, tokens |-> toks, storage_deposits |-> deps, deployment |-> None]
CreateIssued(toks, deps, deployment) ==
    [error |-> "", tokens |-> toks, storage_deposits |-> deps,
     deployment |-> Some(deployment)]

\* the validation of create_token that reads only the whitelists and the
\* arguments, in the order of the code: the error of the first assertion
\* that fails, "" when all pass
create_token_error(wl_tokens, wl_oracles, token_args) ==
    LET whitelisted_token == wl_tokens[token_args.token_id]
        token_name == token_name_of(whitelisted_token)
        ticker == ticker_of(whitelisted_token)
        token_id == derive_token_id(token_name, token_args.target_price)
    IN IF token_args.token_id \notin DOMAIN wl_tokens
       THEN "Token wasn't whitelisted"
       ELSE IF token_args.price_oracle_account_id = None
       THEN "Price Oracle Contract is missing"
       ELSE IF token_args.price_oracle_account_id[1] \notin wl_oracles
       THEN "Price Oracle wasn't whitelisted"
       ELSE IF ~(/\ whitelisted_token.metadata.decimals > 0
                 /\ ticker # << >>
                 /\ token_name # << >>)
       THEN "Missing token metadata"
       ELSE IF ~(token_args.target_price > 0)
       THEN "Illegal target price"
       ELSE IF ~whitelisted_token.metadata.spec_ok
       THEN "Metadata is invalid"
       ELSE IF ~is_valid_account_id(token_account_id_of(token_id))
       THEN "Token Account ID is invalid"
       ELSE ""

\* create_token that keeps the attached deposit when a later check fails
create_token_result_keeps_deposit(toks, deps, wl_tokens, wl_oracles, predecessor, token_args, attached) ==
    LET paid == IF attached > 0
                THEN factory_storage_deposit_result(deps, predecessor, attached)
                ELSE BudgetResult("", deps)
        error == create_token_error(wl_tokens, wl_oracles, token_args)
        args == build_args(wl_tokens[token_args.token_id], token_args)
        required_balance == get_min_attached_balance(args)
        user_balance == BudgetOrZero(paid.storage_deposits, predecessor)
    IN IF paid.error # "" THEN CreateFailed(paid.error, toks, deps)
       ELSE IF error # "" THEN CreateFailed(error, toks, paid.storage_deposits)
       ELSE IF ~(user_balance >= required_balance)
       THEN CreateFailed("Not enough required balance", toks, paid.storage_deposits)
       ELSE IF args.token_id \in DOMAIN toks
       THEN CreateFailed("Token ID is already taken", toks, paid.storage_deposits)
       ELSE CreateIssued(Insert(toks, args.token_id, args),
                         Insert(paid.storage_deposits, predecessor,
                                user_balance - required_balance),
                         Deployment(token_account_id_of(args.token_id), args))

\* create_token that deducts only the code footprint, not the whole funding
create_token_result_undercharged(toks, deps, wl_tokens, wl_oracles, predecessor, token_args, attached) ==
    LET paid == IF attached > 0
                THEN factory_storage_deposit_result(deps, predecessor, attached)
                ELSE BudgetResult("", deps)
        error == create_token_error(wl_tokens, wl_oracles, token_args)
        args == build_args(wl_tokens[token_args.token_id], token_args)
        required_balance == get_min_attached_balance(args)
        user_balance == BudgetOrZero(paid.storage_deposits, predecessor)
    IN IF paid.error # "" THEN CreateFailed(paid.error, toks, deps)
       ELSE IF error # "" THEN CreateFailed(error, toks, deps)
       ELSE IF ~(user_balance >= required_balance)
       THEN CreateFailed("Not enough required balance", toks, deps)
       ELSE IF args.token_id \in DOMAIN toks
       THEN CreateFailed("Token ID is already taken", toks, deps)
       ELSE CreateIssued(Insert(toks, args.token_id, args),
                         Insert(paid.storage_deposits, predecessor,
                                user_balance - FT_WASM_CODE_LEN),
                         Deployment(token_account_id_of(args.token_id), args))

\* create_token that overwrites the record of a token id already taken
create_token_result_overwrite(toks, deps, wl_tokens, wl_oracles, predecessor, token_args, attached) ==
    LET paid == IF attached > 0
                THEN factory_storage_deposit_result(deps, predecessor, attached)
                ELSE BudgetResult("", deps)
        error == create_token_error(wl_tokens, wl_oracles, token_args)
        args == build_args(wl_tokens[token_args.token_id], token_args)
        required_balance == get_min_attached_balance(args)
        user_balance == BudgetOrZero(paid.storage_deposits, predecessor)
    IN IF paid.error # "" THEN CreateFailed(paid.error, toks, deps)
       ELSE IF error # "" THEN CreateFailed(error, toks, deps)
       ELSE IF ~(user_balance >= required_balance)
       THEN CreateFailed("Not enough required balance", toks, deps)
       ELSE CreateIssued(Insert(toks, args.token_id, args),
                         Insert(paid.storage_deposits, predecessor,
                                user_balance - required_balance),
                         Deployment(token_account_id_of(args.token_id), args))

\* TokenFactory::create_token.  A panic reverts the whole call, the
\* storage_deposit of the attached deposit included.
create_token_result(toks, deps, wl_tokens, wl_oracles, predecessor, token_args, attached) ==
    LET paid == IF attached > 0
                THEN factory_storage_deposit_result(deps, predecessor, attached)
                ELSE BudgetResult("", deps)
        error == create_token_error(wl_tokens, wl_oracles, token_args)
        args == build_args(wl_tokens[token_args.token_id], token_args)
        required_balance == get_min_attached_balance(args)
        user_balance == BudgetOrZero(paid.storage_deposits, predecessor)
    IN IF paid.error # "" THEN CreateFailed(paid.error, toks, deps)
       ELSE IF error # "" THEN CreateFailed(error, toks, deps)
       ELSE IF ~(user_balance >= required_balance)
       THEN CreateFailed("Not enough required balance", toks, deps)
       ELSE IF args.token_id \in DOMAIN toks
       THEN CreateFailed("Token ID is already taken", toks, deps)
       ELSE CreateIssued(Insert(toks, args.token_id, args),
                         Insert(paid.storage_deposits, predecessor,
                                user_balance - required_balance),
                         Deployment(token_account_id_of(args.token_id), args))

\* the deployment sequences issued for token id: how many, and the outcome
\* of the last one ("pending", "created" or "failed")
Issued(deps_issued, token_id) ==
    IF token_id \in DOMAIN deps_issued THEN deps_issued[token_id].issued ELSE 0

create_token(predecessor, token_args, attached) ==
    LET r == create_token_result(tokens, storage_deposits, whitelisted_tokens,
                                 whitelisted_price_oracles, predecessor,
                                 token_args, attached)
        token_id == r.deployment[1].args.token_id
    IN /\ attached > 0 => deposits_made < MaxDeposits
       /\ IF r.error # "" THEN UNCHANGED factory
          ELSE /\ tokens' = r.tokens
               /\ storage_deposits' = r.storage_deposits
               /\ deployments' = Insert(deployments, token_id,
                                        [issued |-> Issued(deployments, token_id) + 1,
                                         outcome |-> "pending"])
               /\ deposits_made' = deposits_made + (IF attached > 0 THEN 1 ELSE 0)
               /\ UNCHANGED << whitelists, metadata_reads >>

\* the end of a deployment sequence with a rollback of the reservation
deployment_done_result_rollback(toks, deps, token_id, success) ==
    [ tokens |-> IF success THEN toks
                 ELSE [x \in DOMAIN toks \ {token_id} |-> toks[x]],
      storage_deposits |-> deps ]

\* the end of a deployment sequence: create_token attaches no callback to
\* the batch, so the factory runs nothing and its state stays as it is
deployment_done_result(toks, deps, token_id, success) ==
    [ tokens |-> toks, storage_deposits |-> deps ]

deployment_done(token_id, success) ==
    LET r == deployment_done_result(tokens, storage_deposits, token_id, success)
    IN /\ token_id \in DOMAIN deployments
       /\ deployments[token_id].outcome = "pending"
       /\ deployments' = [deployments EXCEPT ![token_id].outcome =
                             IF success THEN "created" ELSE "failed"]
       /\ tokens' = r.tokens
       /\ storage_deposits' = r.storage_deposits
       /\ UNCHANGED << whitelists, metadata_reads, deposits_made >>

\* TokenFactory::internal_whitelist_token: None when it panics
internal_whitelist_token(wl_tokens, token_id, asset_id, ticker, metadata) ==
    IF ~is_valid_symbol(to_ascii_lowercase(metadata.symbol)) THEN None
    ELSE Some(Insert(wl_tokens, token_id, WhitelistedToken(asset_id, ticker, metadata)))

\* TokenFactory::whitelist_token_with_metadata (#[private])
whitelist_token_with_metadata(token_id, asset_id, ticker, metadata) ==
    LET r == internal_whitelist_token(whitelisted_tokens, token_id, asset_id,
                                      ticker, metadata)
    IN IF r = None THEN UNCHANGED factory
       ELSE /\ whitelisted_tokens' = r[1]
            /\ UNCHANGED << tokens, storage_deposits, whitelisted_price_oracles,
                            metadata_reads, deployments, deposits_made >>

\* ft_metadata().then(on_ft_metadata(token_id, asset_id, ticker))
MetadataRead(token_id, asset_id, ticker) ==
    [token_id |-> token_id, asset_id |-> asset_id, ticker |-> ticker]

\* TokenFactory::whitelist_token (#[private])
whitelist_token(token_id, asset_id, ticker) ==
    /\ Cardinality(metadata_reads) < MaxReads
    /\ metadata_reads' = metadata_reads \cup {MetadataRead(token_id, asset_id, ticker)}
    /\ UNCHANGED << tokens, storage_deposits, whitelists, deployments, deposits_made >>

\* TokenFactory::on_ft_metadata, run as the callback of the read rd; with no
\* metadata to decode (the read failed) it panics
factory_on_ft_metadata(rd, ft_metadata) ==
    LET r == IF ft_metadata = None THEN None
             ELSE internal_whitelist_token(whitelisted_tokens, rd.token_id,
                                           rd.asset_id, rd.ticker, ft_metadata[1])
    IN /\ rd \in metadata_reads
       /\ metadata_reads' = metadata_reads \ {rd}
       /\ whitelisted_tokens' = IF r = None THEN whitelisted_tokens ELSE r[1]
       /\ UNCHANGED << tokens, storage_deposits, whitelisted_price_oracles,
                       deployments, deposits_made >>

\* TokenFactory::whitelist_price_oracle (#[private])
whitelist_price_oracle(account_id) ==
    /\ whitelisted_price_oracles' = whitelisted_price_oracles \cup {account_id}
    /\ UNCHANGED << tokens, storage_deposits, whitelisted_tokens, metadata_reads,
                    deployments, deposits_made >>

\* TokenFactory::update_whitelisted_token_metadata (#[private])
update_whitelisted_token_metadata(token_id, metadata) ==
    IF token_id \notin DOMAIN whitelisted_tokens THEN UNCHANGED factory
    ELSE /\ whitelisted_tokens' =
                [whitelisted_tokens EXCEPT ![token_id].metadata = metadata]
         /\ UNCHANGED << tokens, storage_deposits, whitelisted_price_oracles,
                         metadata_reads, deployments, deposits_made >>

\* update_token_metadata that stores a whole new record under the token id
update_token_metadata_result_replace(toks, token_id, metadata) ==
    IF token_id \notin DOMAIN toks THEN None
    ELSE Some(Insert(toks, token_id,
                     [toks[token_id] EXCEPT !.meta = metadata,
                                            !.price_oracle_account_id = "oracle2"]))

\* TokenFactory::update_token_metadata (#[private]): None when it panics
update_token_metadata_result(toks, token_id, metadata) ==
    IF token_id \notin DOMAIN toks THEN None
    ELSE Some(Insert(toks, token_id, [toks[token_id] EXCEPT !.meta = metadata]))

update_token_metadata(token_id, metadata) ==
    LET r == update_token_metadata_result(tokens, token_id, metadata)
    IN IF r = None THEN UNCHANGED factory
       ELSE /\ tokens' = r[1]
            /\ UNCHANGED << storage_deposits, whitelists, metadata_reads,
                            deployments, deposits_made >>

\* a #[private] method called by any account but the factory itself panics
factory_call_private(predecessor) ==
    /\ predecessor \in Callers
    /\ UNCHANGED factory

\* the token ids create_token can derive in the model
TokenIds ==
    { derive_token_id(format_title(m.symbol), t) : m \in Metadatas, t \in TargetPrices }

\* a request for wrap.near at 1.5000, and the deposits a call may attach:
\* none, one too low to open a budget, and one that opens a budget covering
\* that request
SampleArgs ==
    build_args(WhitelistedToken("wrap.near", None, GoodMetadata),
               [token_id |-> "wrap.near", target_price |-> 15000,
                price_oracle_account_id |-> Some("oracle")])
AttachedDeposits ==
    {0, 1, storage_balance_cost + get_min_attached_balance(SampleArgs)}

\* ========================================================= two-state vault
\* The vault of src/src/lib.rs, whose status is Locked or Unlocked only.  It
\* uses the same ledger; its fields carry the prefix two_state_.
VARIABLES
    two_state_status,              \* Contract.status
    two_state_accounts,            \* Contract.ft.accounts
    two_state_total_supply,        \* Contract.ft.total_supply
    two_state_trigger_account_id,  \* Contract.trigger_account_id
    two_state_promises             \* bag of ft_transfer(..).then(after_ft_transfer(..)) in flight

two_state == << two_state_status, two_state_accounts, two_state_total_supply,
                two_state_trigger_account_id, two_state_promises >>

NO_DEPOSIT == 0

\* the accounts that call the two-state vault
TwoStateHolders == {"alice", "bob", "carol"}

\* a Contract::new that starts Locked
two_state_new_status_locked == Locked

\* the status Contract::new sets
two_state_new_status == Unlocked

\* Contract::new
TwoStateInit ==
    /\ two_state_status = two_state_new_status
    /\ two_state_accounts = [x \in {} |-> 0]
    /\ two_state_total_supply = 0
    /\ two_state_trigger_account_id \in {"backup", "alice"}
    /\ two_state_promises = EmptyBag

\* the two-state vault as it is while the other contracts run
TwoStateIdle ==
    /\ two_state_status = two_state_new_status
    /\ two_state_accounts = [x \in {} |-> 0]
    /\ two_state_total_supply = 0
    /\ two_state_trigger_account_id = "backup"
    /\ two_state_promises = EmptyBag

two_state_storage_deposit(account_id, enough) ==
    LET r == storage_deposit_result(two_state_accounts, account_id, enough)
    IN IF r.panic THEN UNCHANGED two_state
       ELSE /\ two_state_accounts' = r.accounts
            /\ UNCHANGED << two_state_status, two_state_total_supply,
                            two_state_trigger_account_id, two_state_promises >>

two_state_storage_unregister(predecessor, force, attached) ==
    LET r == storage_unregister_result(two_state_accounts, predecessor, force, attached)
    IN IF r.panic THEN UNCHANGED two_state
       ELSE /\ two_state_accounts' = r.accounts
            /\ two_state_total_supply' = two_state_total_supply - r.amount
            /\ UNCHANGED << two_state_status, two_state_trigger_account_id,
                            two_state_promises >>

two_state_ft_transfer(predecessor, receiver_id, amount, attached) ==
    LET r == ft_transfer_result(two_state_accounts, predecessor, receiver_id, amount,
                                attached)
    IN IF r.panic THEN UNCHANGED two_state
       ELSE /\ two_state_accounts' = r.accounts
            /\ UNCHANGED << two_state_status, two_state_total_supply,
                            two_state_trigger_account_id, two_state_promises >>

\* FungibleTokenReceiver::ft_on_transfer of the two-state vault
two_state_ft_on_transfer_result(st, accs, locked_token, predecessor, sender_id, amount) ==
    LET credited == internal_deposit(accs, sender_id, amount)
    IN IF \/ predecessor # locked_token
          \/ st.tag # "Locked"
          \/ credited = None
       THEN LedgerPanic
       ELSE LedgerOk(credited[1], amount)

two_state_ft_on_transfer(predecessor, sender_id, amount) ==
    LET r == two_state_ft_on_transfer_result(two_state_status, two_state_accounts,
                                             "wrap.near", predecessor, sender_id, amount)
    IN /\ two_state_total_supply + amount <= MaxSupply
       /\ IF r.panic THEN UNCHANGED two_state
          ELSE /\ two_state_accounts' = r.accounts
               /\ two_state_total_supply' = two_state_total_supply + r.amount
               /\ UNCHANGED << two_state_status, two_state_trigger_account_id,
                               two_state_promises >>

\* Contract::unlock of the two-state vault
two_state_unlock_result(st, trigger, predecessor, attached) ==
    IF \/ attached # ONE_YOCTO
       \/ predecessor # trigger
       \/ st.tag # "Locked"
    THEN Panicked
    ELSE Returned(Unlocked)

two_state_unlock(predecessor, attached) ==
    LET r == two_state_unlock_result(two_state_status, two_state_trigger_account_id,
                                     predecessor, attached)
    IN IF r.panic THEN UNCHANGED two_state
       ELSE /\ two_state_status' = r.status
            /\ UNCHANGED << two_state_accounts, two_state_total_supply,
                            two_state_trigger_account_id, two_state_promises >>

\* Contract::unwrap of the two-state vault
two_state_unwrap_result(st, accs, predecessor, attached) ==
    LET balance == BalanceOrZero(accs, predecessor)
        debited == internal_withdraw(accs, predecessor, balance)
    IN IF \/ attached # ONE_YOCTO
          \/ st.tag # "Unlocked"
          \/ debited = None
       THEN LedgerPanic
       ELSE LedgerOk(debited[1], balance)

two_state_unwrap(predecessor, attached) ==
    LET r == two_state_unwrap_result(two_state_status, two_state_accounts, predecessor,
                                     attached)
    IN /\ BagCardinality(two_state_promises) < MaxPromises
       /\ IF r.panic THEN UNCHANGED two_state
          ELSE /\ two_state_accounts' = r.accounts
               /\ two_state_total_supply' = two_state_total_supply - r.amount
               /\ two_state_promises' =
                      two_state_promises (+) SetToBag({Promise(predecessor, r.amount)})
               /\ UNCHANGED << two_state_status, two_state_trigger_account_id >>

\* ExtSelf::after_ft_transfer of the two-state vault.  On success it calls
\* internal_storage_unregister(None), which unregisters the predecessor (in
\* a callback the vault itself) and asserts one yocto, while the callback
\* carries NO_DEPOSIT.
two_state_after_ft_transfer_result(accs, account_id, balance, promise_success) ==
    IF promise_success
    THEN storage_unregister_result(accs, CURRENT_ACCOUNT, FALSE, NO_DEPOSIT)
    ELSE LET credited == internal_deposit(accs, account_id, balance)
         IN IF credited = None THEN LedgerPanic ELSE LedgerOk(credited[1], balance)

two_state_after_ft_transfer(pr, promise_success) ==
    LET r == two_state_after_ft_transfer_result(two_state_accounts, pr.account_id,
                                                pr.balance, promise_success)
    IN /\ BagIn(pr, two_state_promises)
       /\ two_state_promises' = two_state_promises (-) SetToBag({pr})
       /\ IF r.panic THEN UNCHANGED << two_state_accounts, two_state_total_supply >>
          ELSE /\ two_state_accounts' = r.accounts
               /\ two_state_total_supply' =
                      two_state_total_supply + (IF promise_success THEN 0 - r.amount
                                                ELSE r.amount)
       /\ UNCHANGED << two_state_status, two_state_trigger_account_id >>

\* after_ft_transfer is #[private]
two_state_call_private(predecessor) ==
    /\ predecessor # CURRENT_ACCOUNT
    /\ UNCHANGED two_state

\* ==================================================================== naming
\* The naming of a token on its own: a whitelisted symbol and a raw target
\* price, the fraction remove_trailing_zeros renders for the price, the
\* account create_token deploys to and the account get_token_name returns.
VARIABLES
    symbol_in,   \* metadata.symbol of the whitelisted token
    raw_price,   \* token_args.target_price.0
    fraction,    \* remove_trailing_zeros(raw_price % 10000), None before it runs
    created_id,  \* the account create_token deployed to, None before it does
    preview_id   \* the account get_token_name returned, None before it does

naming == << symbol_in, raw_price, fraction, created_id, preview_id >>

\* symbols of the whitelisted token: one of them with whitespace
Symbols == { << "w", "N" >>, << "w", " ", "N" >> }

\* raw target prices: every price up to MaxRaw, which has every number of
\* leading and of trailing zeros in its four digits, and prices with an
\* integer part of one digit and more
RawPrices ==
    0..MaxRaw \cup {9999, 10000, 10001, 12345, 100000, 123450, 1234500, 10000000}

NamingIdle ==
    /\ symbol_in = << >>
    /\ raw_price = 0
    /\ fraction = None
    /\ created_id = None
    /\ preview_id = None

NamingInit ==
    /\ symbol_in \in Symbols
    /\ raw_price \in RawPrices
    /\ fraction = None
    /\ created_id = None
    /\ preview_id = None

\* self.whitelisted_tokens of a factory that has whitelisted wrap.near with
\* this symbol
WhitelistOf(symbol) ==
    Insert([x \in {} |-> 0], "wrap.near",
           WhitelistedToken(AssetOf("wrap.near"), None,
                            Metadata(<< "N" >>, symbol, 24, TRUE)))

\* TokenArgsInput for wrap.near at this price, with this feed
NamingArgs(target_price, feed) ==
    [token_id |-> "wrap.near", target_price |-> target_price,
     price_oracle_account_id |-> Some(feed)]

\* a storage budget that covers any creation of the model
AmpleBudget == 1000000

\* TokenFactory::get_token_name: None when it panics
get_token_name(wl_tokens, token_args) ==
    IF token_args.token_id \notin DOMAIN wl_tokens THEN None
    ELSE LET token_name == format_title(wl_tokens[token_args.token_id].metadata.symbol)
             token_id == to_ascii_lowercase(
                             token_name \o << "-" >>
                             \o to_string(token_args.target_price \div 10000)
                             \o << "-" >> \o format_04(token_args.target_price % 10000))
             token_account_id == token_account_id_of(token_id)
         IN IF ~is_valid_account_id(token_account_id) THEN None
            ELSE Some(token_account_id)

\* remove_trailing_zeros applied to the remainder of the price
render ==
    /\ fraction = None
    /\ fraction' = Some(remove_trailing_zeros(raw_price % 10000))
    /\ UNCHANGED << symbol_in, raw_price, created_id, preview_id >>

\* create_token called by predecessor, with its budget, on a factory with
\* this registry that has whitelisted the symbol and the feed
derive(predecessor, feed, toks) ==
    LET r == create_token_result(toks, Insert([x \in {} |-> 0], predecessor, AmpleBudget),
                                 WhitelistOf(symbol_in), {feed}, predecessor,
                                 NamingArgs(raw_price, feed), 0)
    IN /\ created_id = None
       /\ created_id' = IF r.error = "" THEN Some(r.deployment[1].token_account_id)
                        ELSE None
       /\ UNCHANGED << symbol_in, raw_price, fraction, preview_id >>

\* get_token_name called on that factory
preview ==
    /\ preview_id = None
    /\ preview_id' = get_token_name(WhitelistOf(symbol_in), NamingArgs(raw_price, "oracle"))
    /\ UNCHANGED << symbol_in, raw_price, fraction, created_id >>

\* a registry that already holds another token
OtherRegistry ==
    Insert([x \in {} |-> 0], << "o" >>,
           build_args(WhitelistOf(<< "o" >>)["wrap.near"], NamingArgs(10000, "oracle")))

\* ------------------------------------------------------- the vault's steps
Next ==
    \/ /\ UNCHANGED << factory, comparison, naming, two_state >>
       /\ \E a \in Holders, enough \in BOOLEAN : storage_deposit(a, enough)
    \/ /\ UNCHANGED << factory, comparison, naming, two_state >>
       /\ \E a \in Holders, force \in BOOLEAN, attached \in 0..1 :
           storage_unregister(a, force, attached)
    \/ /\ UNCHANGED << factory, comparison, naming, two_state >>
       /\ \E a \in Holders, b \in Holders, amount \in 0..MaxSupply, attached \in 0..1 :
           ft_transfer(a, b, amount, attached)
    \/ /\ UNCHANGED << factory, comparison, naming, two_state >>
       /\ \E t \in {"wrap.near", "other.near"}, a \in Holders, amount \in 1..MaxSupply :
           ft_on_transfer(t, a, amount)
    \/ /\ UNCHANGED << factory, comparison, naming, two_state >>
       /\ \E a \in Holders, attached \in 0..1 : unwrap(a, attached)
    \/ /\ UNCHANGED << factory, comparison, naming, two_state >>
       /\ \E a \in Holders, balance \in 0..MaxSupply, promise_success \in BOOLEAN :
           after_ft_transfer(Promise(a, balance), promise_success)
    \/ /\ UNCHANGED << factory, comparison, naming, two_state >>
       /\ \E a \in Holders : call_private(a)
    \/ /\ UNCHANGED << factory, comparison, naming, two_state >>
       /\ \E a \in Feeds, prices \in PriceLists : oracle_on_call(a, prices)
    \/ /\ UNCHANGED << factory, comparison, naming, two_state >>
       /\ \E a \in {"backup", "alice"}, attached \in 0..1 : unlock(a, attached)
    \/ /\ UNCHANGED << factory, comparison, naming, two_state >>
       /\ \E a \in {OWNER_ID, "alice"}, f \in Feeds : update_price_oracle_account_id(a, f)
    \/ /\ UNCHANGED << factory, comparison, naming, two_state >>
       /\ update_meta
    \/ /\ UNCHANGED << factory, comparison, naming, two_state >>
       /\ \E m \in {None} \cup { Some(x) : x \in Metas } : on_ft_metadata(m)
    \/ /\ UNCHANGED << factory, comparison, naming, two_state >>
       /\ Tick

\* the vault on its own: the factory and the comparator stay as they start
VaultInit == Init /\ FactoryInit /\ ComparisonIdle /\ NamingIdle /\ TwoStateIdle

Spec == VaultInit /\ [][Next]_<< vars, factory, comparison, naming, two_state >>

\* ----------------------------------------------------- the factory's steps
FactoryNext ==
    \/ /\ UNCHANGED << vars, comparison, naming, two_state >>
       /\ \E a \in Callers, deposit \in AttachedDeposits :
           factory_storage_deposit(a, deposit)
    \/ /\ UNCHANGED << vars, comparison, naming, two_state >>
       /\ \E a \in Callers, token_args \in TokenArgsInputs,
                            attached \in AttachedDeposits :
           create_token(a, token_args, attached)
    \/ /\ UNCHANGED << vars, comparison, naming, two_state >>
       /\ \E token_id \in TokenIds, success \in BOOLEAN :
           deployment_done(token_id, success)
    \/ /\ UNCHANGED << vars, comparison, naming, two_state >>
       /\ \E m \in {GoodMetadata, SpacedMetadata} :
           whitelist_token_with_metadata("wrap.near", AssetOf("wrap.near"), None, m)
    \/ /\ UNCHANGED << vars, comparison, naming, two_state >>
       /\ \E ticker \in Tickers \ {None} :
           whitelist_token("wrap.near", AssetOf("wrap.near"), ticker)
    \/ /\ UNCHANGED << vars, comparison, naming, two_state >>
       /\ \E ticker \in Tickers,
             m \in {None, Some(GoodMetadata), Some(SpacedMetadata)} :
           factory_on_ft_metadata(MetadataRead("wrap.near", AssetOf("wrap.near"), ticker), m)
    \/ /\ UNCHANGED << vars, comparison, naming, two_state >>
       /\ whitelist_price_oracle("oracle")
    \/ /\ UNCHANGED << vars, comparison, naming, two_state >>
       /\ \E m \in Metadatas : update_whitelisted_token_metadata("wrap.near", m)
    \/ /\ UNCHANGED << vars, comparison, naming, two_state >>
       /\ \E token_id \in TokenIds :
           update_token_metadata(token_id, GoodMetadata)
    \/ /\ UNCHANGED << vars, comparison, naming, two_state >>
       /\ \E a \in Callers : factory_call_private(a)

FactorySpec == VaultInit /\ [][FactoryNext]_<< vars, factory, comparison, naming, two_state >>

\* ------------------------------------------------------ the comparator's steps
ComparisonNext ==
    \/ /\ UNCHANGED << vars, factory, naming, two_state >>
       /\ compare
    \/ /\ UNCHANGED << vars, factory, naming, two_state >>
       /\ \E k \in 1..MaxScale : rescale(k)
    \/ /\ UNCHANGED << vars, factory, naming, two_state >>
       /\ swap

\* the comparator on its own
PriceInit == Init /\ FactoryInit /\ ComparisonInit /\ NamingIdle /\ TwoStateIdle

PriceSpec == PriceInit /\ [][ComparisonNext]_<< vars, factory, comparison, naming, two_state >>

\* ---------------------------------------------------------- the naming steps
NamingNext ==
    \/ /\ UNCHANGED << vars, factory, comparison, two_state >>
       /\ render
    \/ /\ UNCHANGED << vars, factory, comparison, two_state >>
       /\ \E a \in Callers, f \in Feeds, toks \in {[x \in {} |-> 0], OtherRegistry} :
           derive(a, f, toks)
    \/ /\ UNCHANGED << vars, factory, comparison, two_state >>
       /\ preview

\* the naming on its own
NamesInit ==
    /\ Init /\ backup_trigger_account_id = None /\ FactoryInit /\ ComparisonIdle
    /\ NamingInit /\ TwoStateIdle

NamingSpec == NamesInit /\ [][NamingNext]_<< vars, factory, comparison, naming, two_state >>

\* ------------------------------------------------ the two-state vault's steps
TwoStateNext ==
    \/ /\ UNCHANGED << vars, factory, comparison, naming >>
       /\ \E a \in TwoStateHolders, enough \in BOOLEAN : two_state_storage_deposit(a, enough)
    \/ /\ UNCHANGED << vars, factory, comparison, naming >>
       /\ \E a \in TwoStateHolders, force \in BOOLEAN, attached \in 0..1 :
           two_state_storage_unregister(a, force, attached)
    \/ /\ UNCHANGED << vars, factory, comparison, naming >>
       /\ \E a \in TwoStateHolders, b \in TwoStateHolders, amount \in 0..MaxSupply,
             attached \in 0..1 :
           two_state_ft_transfer(a, b, amount, attached)
    \/ /\ UNCHANGED << vars, factory, comparison, naming >>
       /\ \E t \in {"wrap.near", "other.near"}, a \in TwoStateHolders,
             amount \in 1..MaxSupply :
           two_state_ft_on_transfer(t, a, amount)
    \/ /\ UNCHANGED << vars, factory, comparison, naming >>
       /\ \E a \in {"backup", "alice"}, attached \in 0..1 : two_state_unlock(a, attached)
    \/ /\ UNCHANGED << vars, factory, comparison, naming >>
       /\ \E a \in TwoStateHolders, attached \in 0..1 : two_state_unwrap(a, attached)
    \/ /\ UNCHANGED << vars, factory, comparison, naming >>
       /\ \E a \in TwoStateHolders, balance \in 0..MaxSupply, promise_success \in BOOLEAN :
           two_state_after_ft_transfer(Promise(a, balance), promise_success)
    \/ /\ UNCHANGED << vars, factory, comparison, naming >>
       /\ \E a \in TwoStateHolders : two_state_call_private(a)

\* the two-state vault on its own
TwoStateStart ==
    /\ Init /\ backup_trigger_account_id = None /\ FactoryInit /\ ComparisonIdle
    /\ NamingIdle /\ TwoStateInit

TwoStateSpec ==
    TwoStateStart /\ [][TwoStateNext]_<< vars, factory, comparison, naming, two_state >>

\* ------------------------------------------------------------- measurements
RECURSIVE SumOver(_, _)
SumOver(f, S) ==
    IF S = {} THEN 0
    ELSE LET x == CHOOSE y \in S : TRUE IN f[x] + SumOver(f, S \ {x})

\* the sum of all internal balances
Balances(accs) == SumOver(accs, DOMAIN accs)

\* the amount debited for the withdrawals of holder a still in flight
Owed(bag, a) ==
    LET mine == { pr \in DOMAIN bag : pr.account_id = a }
    IN SumOver([pr \in mine |-> pr.balance * bag[pr]], mine)

\* the amount debited for all withdrawals still in flight
InFlight(bag) == SumOver([pr \in DOMAIN bag |-> pr.balance * bag[pr]], DOMAIN bag)

\* what an oracle call offers for the vault's asset: "missing" (no entry),
\* "absent" (an entry without a price), or the first entry's price compared,
\* as a rational, with the trigger price
Offer(prices) ==
    LET hits == { i \in 1..Len(prices) : prices[i].asset_id = InitConfig.asset_id }
        first == CHOOSE i \in hits : \A j \in hits : i <= j
    IN IF hits = {} THEN "missing"
       ELSE IF prices[first].price = None THEN "absent"
       ELSE IF prices[first].price[1] \in QualifyingPrices THEN "qualifying"
       ELSE "below"

Offering(kinds) == { prices \in PriceLists : Offer(prices) \in kinds }

\* oracle_on_call by the configured feed, on the status st at time t
FeedCall(st, t, prices) ==
    oracle_on_call_result(st, price_oracle_account_id, config, t,
                          price_oracle_account_id, prices)

Elapsed == block_timestamp - status.initiated_timestamp

\* ------------------------------------------------------------------ claims

\* C1: every step of a withdrawal conserves the holder's funds: unwrap moves
\* the whole balance it read into the promise it issues, and the callback of
\* a promise leaves balance + amount paid out equal to balance + amount in
\* flight before it, whether the transfer succeeded or failed.
C1_Step ==
    /\ \A a \in Holders, attached \in 0..1 :
           unwrap(a, attached) =>
               BalanceOrZero(accounts', a) + Owed(promises', a)
                   = BalanceOrZero(accounts, a) + Owed(promises, a)
    /\ \A pr \in BagToSet(promises), promise_success \in BOOLEAN :
           after_ft_transfer(pr, promise_success) =>
               BalanceOrZero(accounts', pr.account_id) + (ft_sent' - ft_sent)
                   = BalanceOrZero(accounts, pr.account_id) + pr.balance

C1_WithdrawalConserves == [][C1_Step]_vars

\* C2: unwrap panics unless the status is Unlocked; while the vault has never
\* been Unlocked no transfer is in flight, nothing has been paid out and no
\* balance has been debited for a withdrawal.
C2_WithdrawOnlyUnlocked ==
    /\ status.tag # "Unlocked" =>
           \A a \in Holders, attached \in 0..1 :
               unwrap_result(status, accounts, a, attached).panic
    /\ ~was_unlocked =>
           /\ BagCardinality(promises) = 0
           /\ ft_sent = 0
           /\ Balances(accounts) + burned = deposited

\* a holder has a balance to withdraw while the vault is Unlocking
C2_Witness ==
    /\ ~was_unlocked
    /\ status.tag = "Unlocking"
    /\ \E a \in DOMAIN accounts : accounts[a] > 0

\* C3: no debited amount is lost: everything ever deposited is an internal
\* balance, in flight, paid out by the backing ledger, or burned by a forced
\* unregistration.
C3_FailedTransferCompensated ==
    Balances(accounts) + InFlight(promises) + ft_sent + burned = deposited

\* C4: a qualifying update in Locked starts the cooldown now; in Unlocking it
\* unlocks iff the cooldown has elapsed and is otherwise a no-op.  A step into
\* Unlocking comes from Locked and stamps the current time, the stamp does not
\* move while Unlocking, and an oracle call unlocks only a full cooldown
\* after the stamp.
C4_Transition ==
    \A prices \in Offering({"qualifying"}) :
        LET r == FeedCall(status, block_timestamp, prices)
        IN /\ status.tag = "Locked" => r = Returned(Unlocking(block_timestamp))
           /\ status.tag = "Unlocking" =>
                  /\ status.initiated_timestamp <= block_timestamp
                  /\ r = IF Elapsed >= UNLOCKING_DURATION
                         THEN Returned(Unlocked) ELSE Returned(status)

C4_Step ==
    /\ status.tag # "Unlocking" /\ status'.tag = "Unlocking" =>
           status = Locked /\ status' = Unlocking(block_timestamp)
    /\ status.tag = "Unlocking" /\ status'.tag = "Unlocking" => status' = status
    /\ ( /\ status # Unlocked
         /\ status' = Unlocked
         /\ \E c \in Feeds, prices \in PriceLists : oracle_on_call(c, prices) )
       => status.tag = "Unlocking" /\ Elapsed >= UNLOCKING_DURATION

C4_Cooldown == [] C4_Transition /\ [][C4_Step]_vars

\* a second cooldown, started after time 0, has just elapsed
C4_Witness ==
    /\ status.tag = "Unlocking"
    /\ status.initiated_timestamp > 0
    /\ Elapsed = UNLOCKING_DURATION

\* C5: while Unlocking and before the cooldown has elapsed, a qualifying
\* update returns the status it found, however often it is repeated; once the
\* cooldown has elapsed the first qualifying update unlocks and a second one
\* makes no transition (it panics).
C5_Idempotent ==
    \A prices \in Offering({"qualifying"}), again \in Offering({"qualifying"}) :
        LET r == FeedCall(status, block_timestamp, prices)
            rr == FeedCall(r.status, block_timestamp, again)
        IN status.tag = "Unlocking" =>
               IF Elapsed < UNLOCKING_DURATION
               THEN r = Returned(status) /\ rr = Returned(status)
               ELSE r = Returned(Unlocked) /\ rr.panic

\* the vault is half way through a cooldown
C5_Witness ==
    /\ status.tag = "Unlocking"
    /\ Elapsed > 0
    /\ Elapsed < UNLOCKING_DURATION

\* C6: the vault starts Locked and every change of the status is one of the
\* four transitions, made by the operation that owns it; no other operation
\* changes the status.
C6_Step ==
    /\ status' # status =>
           \/ /\ status = Locked
              /\ status' = Unlocking(block_timestamp)
              /\ \E prices \in Offering({"qualifying"}) :
                     oracle_on_call(price_oracle_account_id, prices)
           \/ /\ status.tag = "Unlocking"
              /\ status' = Unlocked
              /\ Elapsed >= UNLOCKING_DURATION
              /\ \E prices \in Offering({"qualifying"}) :
                     oracle_on_call(price_oracle_account_id, prices)
           \/ /\ status.tag = "Unlocking"
              /\ status' = Locked
              /\ \E prices \in Offering({"below", "absent"}) :
                     oracle_on_call(price_oracle_account_id, prices)
           \/ /\ status.tag \in {"Locked", "Unlocking"}
              /\ status' = Unlocked
              /\ \E c \in AccountIds : unlock(c, ONE_YOCTO) /\ Some(c) = backup_trigger_account_id
    /\ ( \/ \E a \in Holders, enough \in BOOLEAN : storage_deposit(a, enough)
         \/ \E a \in Holders, force \in BOOLEAN, attached \in 0..1 :
                storage_unregister(a, force, attached)
         \/ \E a \in Holders, b \in Holders, amount \in 0..MaxSupply, attached \in 0..1 :
                ft_transfer(a, b, amount, attached)
         \/ \E t \in AccountIds, a \in Holders, amount \in 1..MaxSupply :
                ft_on_transfer(t, a, amount)
         \/ \E a \in Holders, attached \in 0..1 : unwrap(a, attached)
         \/ \E pr \in BagToSet(promises), promise_success \in BOOLEAN :
                after_ft_transfer(pr, promise_success)
         \/ \E a \in AccountIds, f \in Feeds : update_price_oracle_account_id(a, f)
         \/ update_meta
         \/ \E m \in {None} \cup { Some(x) : x \in Metas } : on_ft_metadata(m) )
       => status' = status

C6_Transitions == status = Locked /\ [][C6_Step]_vars

\* a vault without backup authority has been unlocked by price updates alone
C6_Witness == status = Unlocked /\ backup_trigger_account_id = None

\* C7: Unlocked is never left; while Unlocked every price update that has an
\* entry for the vault's asset and every forced unlock panics (and so commits
\* nothing).
C7_Fails ==
    status = Unlocked =>
        /\ \A prices \in Offering({"qualifying", "below", "absent"}) :
               FeedCall(status, block_timestamp, prices).panic
        /\ \A c \in AccountIds, attached \in 0..1 :
               unlock_result(status, backup_trigger_account_id, c, attached).panic

C7_Step == status = Unlocked => status' = Unlocked

C7_UnlockedAbsorbing == [] C7_Fails /\ [][C7_Step]_vars

\* the vault is Unlocked and a withdrawal is under way
C7_Witness == status = Unlocked /\ BagCardinality(promises) > 0

\* C8: an oracle call from any account other than the currently configured
\* feed panics whatever prices it carries (and so commits nothing: status and
\* balances stay as they were).
C8_OnlyFeed ==
    \A c \in AccountIds \ {price_oracle_account_id}, prices \in PriceLists :
        oracle_on_call_result(status, price_oracle_account_id, config,
                              block_timestamp, c, prices).panic

\* the feed has been replaced and the vault has moved since
C8_Witness ==
    /\ price_oracle_account_id = "oracle2"
    /\ status.tag = "Unlocking"
    /\ status.initiated_timestamp > 0

\* C9: unlock called by the configured backup authority (with the one yocto
\* the method asserts) while Locked or Unlocking returns Unlocked, whatever
\* the time; from any other account, with no authority configured, or while
\* Unlocked it panics.
C9_ForcedUnlock ==
    \A c \in AccountIds :
        LET r == unlock_result(status, backup_trigger_account_id, c, ONE_YOCTO)
        IN IF Some(c) = backup_trigger_account_id /\ status.tag # "Unlocked"
           THEN r = Returned(Unlocked)
           ELSE r.panic

\* the backup authority has unlocked at time 0, before any cooldown
C9_Witness ==
    /\ status = Unlocked
    /\ backup_trigger_account_id = Some("backup")
    /\ block_timestamp = 0

\* C10: a below-trigger price update received while Locked does not panic and
\* leaves the status Locked.
C10_LockIdempotent ==
    status = Locked =>
        \A prices \in Offering({"below"}) :
            FeedCall(status, block_timestamp, prices) = Returned(Locked)

\* C11: a price update from the feed with no entry for the vault's asset, or
\* with an entry whose price is absent, takes the lock path: received while
\* Unlocking it returns the status Locked.
C11_MissingPriceLocks ==
    status.tag = "Unlocking" =>
        \A prices \in Offering({"missing", "absent"}) :
            FeedCall(status, block_timestamp, prices) = Returned(Locked)

\* create_token called by a in the current state of the factory
Create(a, token_args, attached) ==
    create_token_result(tokens, storage_deposits, whitelisted_tokens,
                        whitelisted_price_oracles, a, token_args, attached)

\* the request names an asset or a feed that is not whitelisted, a zero
\* price, or an asset whose metadata has zero decimals or an empty name
FailsValidation(token_args) ==
    \/ token_args.token_id \notin DOMAIN whitelisted_tokens
    \/ token_args.price_oracle_account_id = None
    \/ token_args.price_oracle_account_id[1] \notin whitelisted_price_oracles
    \/ token_args.target_price = 0
    \/ whitelisted_tokens[token_args.token_id].metadata.decimals = 0
    \/ format_title(whitelisted_tokens[token_args.token_id].metadata.symbol) = << >>

\* C12: a create_token call that fails, with or without an attached deposit,
\* leaves the registry and every budget as they were and issues no
\* deployment sequence; a request that names an asset or feed that is not
\* whitelisted, a zero price, zero decimals or an empty name does fail.
C12_DeploymentAtomic ==
    \A a \in Callers, token_args \in TokenArgsInputs, attached \in AttachedDeposits :
        LET r == Create(a, token_args, attached)
        IN /\ FailsValidation(token_args) => r.error # ""
           /\ r.error # "" =>
                  /\ r.tokens = tokens
                  /\ r.storage_deposits = storage_deposits
                  /\ r.deployment = None

\* a caller with a budget attaches a deposit to a request whose token id is
\* already taken
C12_Witness ==
    \E a \in DOMAIN storage_deposits, token_args \in TokenArgsInputs,
       attached \in AttachedDeposits \ {0} :
        Create(a, token_args, attached).error = "Token ID is already taken"

\* C13: create_token with an asset that is not whitelisted fails with the
\* error of the asset check, and with a whitelisted asset and a feed that is
\* not whitelisted with the error of the feed check; every record names a
\* whitelisted backing token and a whitelisted feed.
C13_WhitelistingRequired ==
    /\ \A a \in Callers, token_args \in TokenArgsInputs, attached \in AttachedDeposits :
           LET r == Create(a, token_args, attached)
           IN IF token_args.token_id \notin DOMAIN whitelisted_tokens
              THEN r.error = "Token wasn't whitelisted"
              ELSE IF token_args.price_oracle_account_id = None
              THEN r.error = "Price Oracle Contract is missing"
              ELSE token_args.price_oracle_account_id[1] \notin whitelisted_price_oracles
                       => r.error = "Price Oracle wasn't whitelisted"
    /\ \A id \in DOMAIN tokens :
           /\ tokens[id].locked_token_account_id \in DOMAIN whitelisted_tokens
           /\ tokens[id].price_oracle_account_id \in whitelisted_price_oracles

\* the storage budget of caller a
Budget(a) == BudgetOrZero(storage_deposits, a)

\* the budget of caller a once the deposit attached to a call is credited
AfterDeposit(a, attached) ==
    IF attached > 0
    THEN BudgetOrZero(factory_storage_deposit_result(storage_deposits, a,
                                                     attached).storage_deposits, a)
    ELSE Budget(a)

\* the minimum funding of the deployment a successful create_token issued
Required(r) == get_min_attached_balance(r.deployment[1].args)

\* C14: no budget is negative; storage_deposit never decreases the caller's
\* budget and touches no other; a successful create_token leaves the caller
\* the budget it had (with the attached deposit credited) less exactly the
\* minimum funding, and touches no other budget; a request that needs more
\* than the budget fails with nothing deducted; two requests of one caller
\* both succeed only if the budget covers both fundings; and no other step
\* changes a budget.
C14_Budgets ==
    /\ \A a \in DOMAIN storage_deposits : storage_deposits[a] >= 0
    /\ \A a \in Callers, deposit \in AttachedDeposits :
           LET r == factory_storage_deposit_result(storage_deposits, a, deposit)
           IN /\ BudgetOrZero(r.storage_deposits, a) >= Budget(a)
              /\ \A b \in Callers \ {a} :
                     BudgetOrZero(r.storage_deposits, b) = Budget(b)
    /\ \A a \in Callers, token_args \in TokenArgsInputs, attached \in AttachedDeposits :
           LET r == Create(a, token_args, attached)
               needed == get_min_attached_balance(
                             build_args(whitelisted_tokens[token_args.token_id],
                                        token_args))
           IN /\ r.error = "" =>
                     /\ BudgetOrZero(r.storage_deposits, a)
                            = AfterDeposit(a, attached) - Required(r)
                     /\ \A b \in Callers \ {a} :
                            BudgetOrZero(r.storage_deposits, b) = Budget(b)
              /\ ( /\ create_token_error(whitelisted_tokens,
                                         whitelisted_price_oracles, token_args) = ""
                   /\ AfterDeposit(a, attached) < needed )
                 => r.error # "" /\ r.storage_deposits = storage_deposits
    /\ \A a \in Callers, first \in TokenArgsInputs, second \in TokenArgsInputs :
           LET r1 == Create(a, first, 0)
               r2 == create_token_result(r1.tokens, r1.storage_deposits,
                                         whitelisted_tokens,
                                         whitelisted_price_oracles, a, second, 0)
           IN (r1.error = "" /\ r2.error = "") =>
                  Budget(a) >= Required(r1) + Required(r2)

C14_Step ==
    \A a \in Callers :
        ( \/ (a \in DOMAIN storage_deposits') # (a \in DOMAIN storage_deposits)
          \/ BudgetOrZero(storage_deposits', a) # Budget(a) )
        => \/ \E deposit \in AttachedDeposits : factory_storage_deposit(a, deposit)
           \/ \E token_args \in TokenArgsInputs, attached \in AttachedDeposits :
                  /\ create_token(a, token_args, attached)
                  /\ Create(a, token_args, attached).error = ""

C14_StorageBudget == [] C14_Budgets /\ [][C14_Step]_factory

\* a caller's budget covers either of two requests that would both pass,
\* but not the two together
C14_Witness ==
    \E a \in Callers, first \in TokenArgsInputs, second \in TokenArgsInputs :
        /\ Create(a, first, 0).error = ""
        /\ Create(a, second, 0).error = ""
        /\ Required(Create(a, first, 0)) # Required(Create(a, second, 0))
        /\ Budget(a) < Required(Create(a, first, 0)) + Required(Create(a, second, 0))

\* the token id a request derives, when its asset is whitelisted
DerivedId(token_args) ==
    derive_token_id(token_name_of(whitelisted_tokens[token_args.token_id]),
                    token_args.target_price)

\* C15: a create_token that succeeds inserts a record under a token id that
\* had none and leaves every other record as it was; a request that derives
\* a token id already in the registry fails and changes no record; a
\* deployment sequence is issued only together with the insertion of its
\* record, so every token id has had at most one sequence issued.
C15_Reservation ==
    /\ \A a \in Callers, token_args \in TokenArgsInputs, attached \in AttachedDeposits :
           LET r == Create(a, token_args, attached)
           IN /\ r.error = "" =>
                     LET args == r.deployment[1].args
                     IN /\ args.token_id \notin DOMAIN tokens
                        /\ r.tokens = Insert(tokens, args.token_id, args)
                        /\ \A id \in DOMAIN tokens : r.tokens[id] = tokens[id]
              /\ ( /\ token_args.token_id \in DOMAIN whitelisted_tokens
                   /\ DerivedId(token_args) \in DOMAIN tokens )
                 => r.error # "" /\ r.tokens = tokens
    /\ DOMAIN deployments = DOMAIN tokens
    /\ \A id \in DOMAIN deployments : deployments[id].issued = 1

\* while the deployment of a token id is in flight, a caller whose budget
\* would cover it asks for the same token id
C15_Witness ==
    \E a \in Callers, token_args \in TokenArgsInputs :
        /\ Create(a, token_args, 0).error = "Token ID is already taken"
        /\ deployments[DerivedId(token_args)].outcome = "pending"

\* C16: the end of a deployment sequence, whatever its outcome, changes
\* neither the registry nor any budget; every token id whose sequence was
\* issued, failed ones included, keeps its record, and no create_token
\* succeeds for it again.
C16_Kept ==
    /\ \A id \in DOMAIN deployments : id \in DOMAIN tokens
    /\ \A a \in Callers, token_args \in TokenArgsInputs, attached \in AttachedDeposits :
           LET r == Create(a, token_args, attached)
           IN r.error = "" => r.deployment[1].args.token_id \notin DOMAIN deployments

C16_Step ==
    \A id \in DOMAIN deployments, success \in BOOLEAN :
        deployment_done(id, success) =>
            /\ tokens' = tokens
            /\ storage_deposits' = storage_deposits

C16_NoRollback == [] C16_Kept /\ [][C16_Step]_factory

\* after a failed deployment a caller whose budget would cover it asks for
\* the same token id again
C16_Witness ==
    \E a \in Callers, token_args \in TokenArgsInputs :
        /\ Create(a, token_args, 0).error = "Token ID is already taken"
        /\ deployments[DerivedId(token_args)].outcome = "failed"

\* what a record keeps for good: all of it but the metadata
Core(record) == [record EXCEPT !.meta = << >>]

\* a create_token call of this step succeeds
Created ==
    \E a \in Callers, token_args \in TokenArgsInputs, attached \in AttachedDeposits :
        /\ create_token(a, token_args, attached)
        /\ Create(a, token_args, attached).error = ""

\* C17: every record stays under its token id with the same token id,
\* backing token, asset, price feed, trigger price and backup authority;
\* its metadata changes only by update_token_metadata; the number of
\* records never decreases and grows by exactly one with every successful
\* create_token, and by nothing else.
C17_Keyed == \A id \in DOMAIN tokens : tokens[id].token_id = id

C17_Step ==
    /\ \A id \in DOMAIN tokens :
           /\ id \in DOMAIN tokens'
           /\ Core(tokens'[id]) = Core(tokens[id])
           /\ tokens'[id].meta # tokens[id].meta =>
                  \E m \in Metadatas : update_token_metadata(id, m)
    /\ DOMAIN tokens' # DOMAIN tokens => Created
    /\ (deployments' # deployments /\ Created) =>
           Cardinality(DOMAIN tokens') = Cardinality(DOMAIN tokens) + 1

C17_Permanent == [] C17_Keyed /\ [][C17_Step]_factory

\* two records, one of them with patched metadata
C17_Witness ==
    /\ Cardinality(DOMAIN tokens) = 2
    /\ \E id \in DOMAIN tokens : tokens[id].meta = GoodMetadata

\* m * 10^k as an exact natural number, in decimal digits
ShiftLeft(m, k) == IF m = << 0 >> THEN m ELSE m \o [i \in 1..k |-> 0]

\* the exact comparison of the rationals a and b: both multipliers brought
\* to the larger number of decimals, without a limit on their size
ExactCmp(a, b) ==
    LET d == IF a.decimals > b.decimals THEN a.decimals ELSE b.decimals
    IN U128Cmp(ShiftLeft(a.multiplier, d - a.decimals),
               ShiftLeft(b.multiplier, d - b.decimals))

\* C18: comparing lhs with rhs gives the reverse of comparing rhs with lhs,
\* also when the decimals differ by more than 38 and when scaling a
\* multiplier overflows 128 bits; the result is one of Less, Equal, Greater.
C18_Antisymmetric ==
    /\ partial_cmp(lhs, rhs) \in {"Less", "Equal", "Greater"}
    /\ partial_cmp(lhs, rhs) = Reverse(partial_cmp(rhs, lhs))
    /\ ordering # None => ordering[1] = partial_cmp(lhs, rhs)

\* an operand with fewer decimals has been compared with one whose decimals
\* are more than 38 larger
C18_Witness ==
    /\ ordering = Some("Greater")
    /\ rhs.decimals - lhs.decimals > MAX_U128_DECIMALS

\* C19: an operand scaled by any power of ten that fits (multiplier in 128
\* bits, decimals in 8 bits) compares with every other operand as the
\* unscaled operand does.
C19_ScaleInvariant ==
    \A k \in 0..MaxScale :
        Scaled(lhs, k) # None =>
            partial_cmp(Scaled(lhs, k)[1], rhs) = partial_cmp(lhs, rhs)

\* a <= b and a == b, as the comparator sees them
PriceLe(a, b) == partial_cmp(a, b) \in {"Less", "Equal"}
PriceEq(a, b) == partial_cmp(a, b) = "Equal"

\* C20: the comparator is a total order: every pair compares as exactly one
\* of Less, Equal, Greater, as Equal exactly when the two values are
\* numerically equal, and both <= and == are transitive.
C20_TotalOrder ==
    /\ partial_cmp(lhs, rhs) \in {"Less", "Equal", "Greater"}
    /\ PriceEq(lhs, rhs) <=> ExactCmp(lhs, rhs) = "Equal"
    /\ \A c \in ComparedPrices :
           /\ PriceLe(lhs, rhs) /\ PriceLe(rhs, c) => PriceLe(lhs, c)
           /\ PriceEq(lhs, rhs) /\ PriceEq(rhs, c) => PriceEq(lhs, c)

\* |a.decimals - b.decimals|
DecimalsDiff(a, b) ==
    IF a.decimals > b.decimals THEN a.decimals - b.decimals
    ELSE b.decimals - a.decimals

\* C21: when the decimals of the operands differ by at most 38, the
\* comparator returns the exact comparison of the two rationals, also when
\* scaling the operand with fewer decimals overflows 128 bits.
C21_Exact ==
    DecimalsDiff(lhs, rhs) <= MAX_U128_DECIMALS =>
        /\ partial_cmp(lhs, rhs) = ExactCmp(lhs, rhs)
        /\ ordering # None => ordering[1] = ExactCmp(lhs, rhs)

\* operands 38 decimals apart have been compared, and scaling the one with
\* fewer decimals overflowed
C21_Witness ==
    /\ ordering = Some("Less")
    /\ lhs.decimals - rhs.decimals = MAX_U128_DECIMALS
    /\ CheckedMulPow10(rhs.multiplier, MAX_U128_DECIMALS) = None

\* the statuses a vault can have at the times of the model
Statuses == {Locked, Unlocked} \cup { Unlocking(t) : t \in 0..MaxTime }

\* C22: when lhs has more than 38 decimals more than rhs, lhs compares
\* strictly less than rhs and rhs strictly greater than lhs, whatever the
\* multipliers, and the comparison returns an Ordering; a vault whose trigger
\* price is rhs handles a pushed price lhs as a price below the trigger.
C22_Clamp ==
    lhs.decimals - rhs.decimals > MAX_U128_DECIMALS =>
        /\ partial_cmp(lhs, rhs) = "Less"
        /\ partial_cmp(rhs, lhs) = "Greater"
        /\ ordering # None => ordering[1] = "Less"
        /\ ~ PriceGe(lhs, rhs)
        /\ \A st \in Statuses, t \in 0..MaxTime :
               oracle_on_call_result(
                   st, "oracle", [config EXCEPT !.minimum_unlock_price = rhs], t,
                   "oracle", << [asset_id |-> config.asset_id, price |-> Some(lhs)] >>)
               = maybe_lock(st)

\* a non-zero price with more than 38 decimals has been compared with zero
C22_Witness ==
    /\ ordering = Some("Less")
    /\ lhs.decimals - rhs.decimals > MAX_U128_DECIMALS
    /\ lhs.multiplier # << 0 >>
    /\ rhs.multiplier = << 0 >>

\* the value of a decimal digit, and of a string of decimal digits
DigitValue(c) == CHOOSE d \in 0..9 : Digit[d + 1] = c

RECURSIVE ParseDigits(_)
ParseDigits(string) ==
    IF string = << >> THEN 0
    ELSE ParseDigits(SubSeq(string, 1, Len(string) - 1)) * 10
             + DigitValue(string[Len(string)])

\* the remainder a rendered fraction stands for: the fraction is the head of
\* four digits, the digits left out are zeros
RemainderOf(string) == ParseDigits(string \o [i \in 1..(4 - Len(string)) |-> "0"])

\* string is the four digits without their trailing zeros
Stripped(string, four) ==
    /\ Len(string) >= 1
    /\ Len(string) <= 4
    /\ string = SubSeq(four, 1, Len(string))
    /\ string[Len(string)] # "0"
    /\ \A i \in (Len(string) + 1)..4 : four[i] = "0"

\* the remainders the documentation renders, with their renderings
RenderedExamples ==
    { << 1000, << "1" >> >>, << 1200, << "1", "2" >> >>,
      << 1230, << "1", "2", "3" >> >>, << 1234, << "1", "2", "3", "4" >> >>,
      << 1, << "0", "0", "0", "1" >> >>, << 10, << "0", "0", "1" >> >>,
      << 100, << "0", "1" >> >>, << 0, << "0" >> >> }

\* C23: the fraction rendered for a remainder r is "0" for r = 0 and else
\* the four zero-padded digits of r without their trailing zeros; it is
\* never empty, keeps its leading zeros, stands for no other remainder, and
\* the documented examples render as documented.
C23_Rendering ==
    fraction # None =>
        LET r == raw_price % 10000
            string == fraction[1]
        IN /\ string # << >>
           /\ r = 0 => string = << "0" >>
           /\ r # 0 => Stripped(string, format_04(r))
           /\ RemainderOf(string) = r
           /\ \A e \in RenderedExamples :
                  /\ e[1] = r => string = e[2]
                  /\ e[1] # r => string # e[2]

\* the fraction of a price without a fractional part has been rendered
C23_Witness ==
    /\ fraction = Some(<< "0" >>)
    /\ raw_price % 10000 = 0
    /\ raw_price > 0

\* "<name>-at-<int>-<frac>" in lower case, for a stripped name and a raw price
ExpectedId(name, raw) ==
    to_ascii_lowercase(name \o << "-", "a", "t", "-" >> \o to_string(raw \div 10000)
                       \o << "-" >> \o remove_trailing_zeros(raw % 10000))

\* the raw price an account id of the factory was derived from, for a token
\* of this stripped name: the digits before and after the hyphen that
\* follows "<name>-at-"
RawOfId(account_id, name) ==
    LET id == SubSeq(account_id, 1, Len(account_id) - Len(FACTORY_ACCOUNT) - 1)
        rest == SubSeq(id, Len(name) + 5, Len(id))
        hyphen == CHOOSE i \in 1..Len(rest) :
                      rest[i] = "-" /\ \A j \in 1..(i - 1) : rest[j] # "-"
    IN ParseDigits(SubSeq(rest, 1, hyphen - 1)) * 10000
           + RemainderOf(SubSeq(rest, hyphen + 1, Len(rest)))

\* raw prices whose digits resemble those of raw
Confusable(raw) == {raw * 10, raw \div 10, raw + 10000, raw + 1, 1, 1000, 10000}

\* C24: the identifier create_token derives is the lower-cased
\* "<name>-at-<int>-<frac>" of the whitespace-stripped symbol and the raw
\* price, whoever calls, whatever the feed and the registry, and whatever
\* the whitespace of the symbol; the raw price can be read back from it, so
\* two raw prices of one asset never share an identifier.
C24_Derivation ==
    LET name == format_title(symbol_in)
        expected == ExpectedId(name, raw_price)
    IN /\ \A c \in 1..Len(name) : name[c] # " "
       /\ created_id # None =>
              /\ created_id[1] = expected \o << "." >> \o FACTORY_ACCOUNT
              /\ RawOfId(created_id[1], name) = raw_price
       /\ \A a \in Callers, f \in Feeds, toks \in {[x \in {} |-> 0], OtherRegistry},
             symbol \in { y \in Symbols : format_title(y) = name } :
              LET r == create_token_result(
                           toks, Insert([x \in {} |-> 0], a, AmpleBudget),
                           WhitelistOf(symbol), {f}, a, NamingArgs(raw_price, f), 0)
              IN /\ r.error = "" <=> raw_price > 0
                 /\ r.error = "" =>
                        /\ r.deployment[1].args.token_id = expected
                        /\ expected \in DOMAIN r.tokens
       /\ \A other \in Confusable(raw_price) :
              other # raw_price =>
                  derive_token_id(name, other) # derive_token_id(name, raw_price)

\* a token has been created for a symbol with whitespace at a price with an
\* integer and a fractional part
C24_Witness ==
    /\ created_id # None
    /\ format_title(symbol_in) # symbol_in
    /\ raw_price \div 10000 > 0
    /\ raw_price % 10000 > 0

\* C30: the account get_token_name returns is the account create_token
\* deploys to, for the same whitelisted token and raw target price.
C30_PreviewAgrees ==
    (preview_id # None /\ created_id # None) => preview_id = created_id

\* C25: a success callback of a withdrawal of a registered holder closes the
\* holder's registration and releases one minimum storage deposit to the
\* holder, whatever happened to the account since the debit.
C25_Step ==
    \A a \in Holders, balance \in 0..MaxSupply :
        (a \in DOMAIN accounts /\ after_ft_transfer(Promise(a, balance), TRUE)) =>
            /\ a \notin DOMAIN accounts'
            /\ storage_held'[a] = storage_held[a] - 1

C25_SuccessCloses == [][C25_Step]_vars

\* C26: no step changes the metadata, the backup authority, the feed, or
\* the backing asset, trigger price, token source and identifier of the vault.
C26_Step == UNCHANGED settings

C26_ConfigImmutable == [][C26_Step]_vars

\* the step is an unwrap of holder a that issues a transfer of n
Withdraws(a, n) == promises' = promises (+) SetToBag({Promise(a, n)})

\* what is in flight, paid out or on the ledger was deposited
C27_Conserved == InFlight(promises) + ft_sent + Balances(accounts) <= deposited

\* C27 as stated: an unwrap of a holder who has a withdrawal in flight
\* requests a transfer of zero, and transfers in flight or delivered plus
\* the balances never exceed the deposits.
C27_SecondStep ==
    \A a \in Holders, n \in 0..MaxSupply :
        (Withdraws(a, n) /\ \E pr \in BagToSet(promises) : pr.account_id = a) => n = 0

C27_NoDoubleSpend == [] C27_Conserved /\ [][C27_SecondStep]_vars

\* an unwrap straight after an unwrap of the same holder requests zero
C27_SecondIsZero ==
    \A a \in Holders :
        LET first == unwrap_result(status, accounts, a, ONE_YOCTO)
            second == unwrap_result(status, first.accounts, a, ONE_YOCTO)
        IN ~first.panic =>
               /\ first.amount = BalanceOrZero(accounts, a)
               /\ first.accounts[a] = 0
               /\ ~second.panic
               /\ second.amount = 0

\* an unwrap requests the holder's whole balance and leaves it at zero
C27_WithdrawStep ==
    \A a \in Holders, n \in 0..MaxSupply :
        Withdraws(a, n) =>
            /\ n = BalanceOrZero(accounts, a)
            /\ accounts'[a] = 0
            /\ total_supply' = total_supply - n

\* C27, amended: every unwrap requests the holder's whole balance and leaves
\* it at zero, so that a second unwrap requests zero unless the holder was
\* credited in between, and transfers in flight or delivered plus the
\* balances never exceed the deposits.
C27_DebitFirst ==
    [] (C27_Conserved /\ C27_SecondIsZero) /\ [][C27_WithdrawStep]_vars

\* a holder has two withdrawals in flight, the second of zero
C27_Witness ==
    /\ BagIn(Promise("alice", 1), promises)
    /\ BagIn(Promise("alice", 0), promises)

\* a transfer notification fails unless it comes from the backing-asset
\* ledger while Locked, and one that is accepted credits all of the amount
C28_Accepts ==
    \A t \in {"wrap.near", "other.near"}, a \in Holders, amount \in 1..MaxSupply :
        LET r == ft_on_transfer_result(status, accounts, config, t, a, amount)
        IN /\ (t # config.locked_token_account_id \/ status.tag # "Locked") => r.panic
           /\ ~r.panic =>
                  /\ a \in DOMAIN accounts
                  /\ r.amount = amount
                  /\ r.accounts = [accounts EXCEPT ![a] = @ + amount]

\* the supply grows by a deposit while Locked or by the re-credit of a
\* failed withdrawal, and deposits are counted only while Locked
C28_Step ==
    /\ total_supply' > total_supply =>
           \/ /\ status.tag = "Locked"
              /\ deposited' - deposited = total_supply' - total_supply
           \/ \E pr \in BagToSet(promises) :
                  /\ after_ft_transfer(pr, FALSE)
                  /\ total_supply' - total_supply = pr.balance
    /\ deposited' # deposited =>
           /\ status.tag = "Locked"
           /\ total_supply' - total_supply = deposited' - deposited
           /\ Balances(accounts') - Balances(accounts) = deposited' - deposited

\* C28: ft_on_transfer credits the sender by the full amount only when it
\* comes from the backing-asset ledger while Locked, and fails without
\* changing a balance otherwise; the supply does not grow outside Locked
\* except by the re-credit of a failed withdrawal.
C28_DepositsOnlyLocked == [] C28_Accepts /\ [][C28_Step]_vars

\* a deposit was credited and the vault has left Locked since
C28_Witness ==
    /\ status.tag = "Unlocking"
    /\ deposited > 0
    /\ total_supply = deposited

\* the vault holds one storage deposit for each registered holder and none
\* for the others: releases never outnumber registrations
C29_Held ==
    \A a \in Holders :
        /\ storage_held[a] >= 0
        /\ storage_held[a] = IF a \in DOMAIN accounts THEN 1 ELSE 0

\* a success callback releases iff the holder is registered with a zero
\* balance, and then removes the registration; a failure callback never does
C29_Callback ==
    \A a \in Holders, balance \in 0..MaxSupply :
        LET ok == after_ft_transfer_result(accounts, a, balance, TRUE)
            failed == after_ft_transfer_result(accounts, a, balance, FALSE)
        IN /\ ok.released <=> (a \in DOMAIN accounts /\ accounts[a] = 0)
           /\ ok.released => a \notin DOMAIN ok.accounts
           /\ ~ok.released => ok.accounts = accounts
           /\ ~failed.released

\* a release takes one deposit and closes the registration in the same step
C29_Step ==
    \A a \in Holders :
        storage_held'[a] < storage_held[a] =>
            /\ storage_held'[a] = storage_held[a] - 1
            /\ a \in DOMAIN accounts
            /\ a \notin DOMAIN accounts'

\* C29: for any interleaving of withdrawals, unregistrations and callbacks
\* the storage deposits released to a holder never outnumber the holder's
\* registrations: a success callback releases only for a holder registered
\* with a zero balance and removes the registration in the same step.
C29_ReleasedOnce == [] (C29_Held /\ C29_Callback) /\ [][C29_Step]_vars

\* one of two overlapping withdrawals of a holder has succeeded and closed
\* the registration, the other is still in flight
C29_Witness ==
    /\ ft_sent = 1
    /\ burned = 0
    /\ "alice" \notin DOMAIN accounts
    /\ storage_held["alice"] = 0
    /\ BagIn(Promise("alice", 0), promises)

\* C31: the two-state vault is Unlocked in every reachable state; every
\* unlock call and every deposit notification fails, and the total internal
\* balance stays zero.
C31_AlwaysUnlocked ==
    /\ two_state_status = Unlocked
    /\ two_state_total_supply = 0
    /\ Balances(two_state_accounts) = 0
    /\ \A a \in AccountIds \cup TwoStateHolders, attached \in 0..1 :
           two_state_unlock_result(two_state_status, two_state_trigger_account_id,
                                   a, attached).panic
    /\ \A t \in {"wrap.near", "other.near"}, a \in TwoStateHolders,
          amount \in 0..MaxSupply :
           two_state_ft_on_transfer_result(two_state_status, two_state_accounts,
                                           "wrap.near", t, a, amount).panic

\* registered holders have withdrawals in flight
C31_Witness ==
    /\ DOMAIN two_state_accounts = TwoStateHolders
    /\ BagCardinality(two_state_promises) = MaxPromises

====
